---- MODULE Spec2Model ----
(***************************************************************************)
(* State-machine model of the IR memo backend: the transcript fallback     *)
(* resolver (agents/sec_edgar.py), the orchestration engine and the        *)
(* regeneration engine (agents/orchestrator.py), the drafting leaves       *)
(* (agents/drafting.py) and the report store (main.py).                    *)
(*                                                                         *)
(* The coroutines are cut where they yield the event that announces a leaf *)
(* call: one action is that event, the awaited leaf call and the           *)
(* synchronous code after it, every event yielded on the way included.     *)
(***************************************************************************)
EXTENDS Integers, Sequences, FiniteSets, TLC

(***************************************************************************)
(* Bounds of the model.                                                    *)
(***************************************************************************)
MaxSel == 2
MaxRegens == 1
MaxWords == 4
MaxTickers == 2
MaxRows == 4

(***************************************************************************)
(* Python values.                                                          *)
(***************************************************************************)
None == "None"

\* Python truthiness of an optional string
Truthy(x) == x # None /\ x # ""

Range(s) == {s[i] : i \in 1..Len(s)}

Last(evs) == evs[Len(evs)]

(***************************************************************************)
(* config.py                                                               *)
(***************************************************************************)
SECTION_IDS == <<"bio", "forecast", "earnings", "peer", "valuation">>

DEFAULT_TICKER == "MS"

PEER_TICKERS == <<"GS", "JPM", "BAC", "C", "WFC", "SCHW">>

ALL_TICKERS == <<DEFAULT_TICKER>> \o PEER_TICKERS

\* COMPANY_CIKS.get(ticker): only MS has a CIK
COMPANY_CIKS(t) == IF t = "MS" THEN "0000895421" ELSE None

(***************************************************************************)
(* agents/sec_edgar.py: the five tier functions.  Each takes what the      *)
(* outside world answers and returns <<text, source_url>>, text = None     *)
(* when the tier has nothing.                                              *)
(***************************************************************************)
EftsAnswers == {"raise", "non200", "no_hit", "hit_without_qa", "hit_qa"}

_search_efts(a) ==
    CASE a = "raise" -> <<None, "">>
      [] a = "non200" -> <<None, "">>
      [] a = "no_hit" -> <<None, "">>
      [] a = "hit_without_qa" -> <<None, "">>
      [] a = "hit_qa" -> <<"efts filing text", "file_url">>

SubmissionsAnswers == {"no_response", "raise", "no_8k", "qa_filing"}

_search_submissions(a) ==
    CASE a = "no_response" -> <<None, "">>
      [] a = "raise" -> <<None, "">>
      [] a = "no_8k" -> <<None, "">>
      [] a = "qa_filing" -> <<"8-K filing text", "index_url">>

FmpAnswers == {"no_key", "raise", "non200", "no_transcripts", "short_content", "content"}

_search_fmp(a) ==
    CASE a = "no_key" -> <<None, "">>
      [] a = "raise" -> <<None, "">>
      [] a = "non200" -> <<None, "">>
      [] a = "no_transcripts" -> <<None, "">>
      [] a = "short_content" -> <<None, "">>
      [] a = "content" -> <<"fmp header and content", "fmp_url">>

WebAnswers == {"raise", "no_article", "short_article", "article"}

_search_transcript_web(a) ==
    CASE a = "raise" -> <<None, "">>
      [] a = "no_article" -> <<None, "">>
      [] a = "short_article" -> <<None, "">>
      [] a = "article" -> <<"web article text", "article_url">>

LocalAnswers == {"missing", "raise", "short_file", "file"}

_read_local_transcript(a) ==
    CASE a = "missing" -> <<None, "">>
      [] a = "raise" -> <<None, "">>
      [] a = "short_file" -> <<None, "">>
      [] a = "file" -> <<"local transcript text", "Local file (ms_transcript.txt)">>

\* What the outside world answers to each tier in one resolution
TierAnswers ==
    [t1 : EftsAnswers, t2 : SubmissionsAnswers, t3 : FmpAnswers,
     t4 : WebAnswers, t5 : LocalAnswers]

\* The result dictionaries of get_transcript
TranscriptFound(text, source, source_url, tier) ==
    [status |-> "success", transcript_text |-> text, source |-> source,
     source_url |-> source_url, tier |-> tier]

\* an exhausted chain that still reports the last tier tried
TranscriptUnavailableAtLastTier ==
    [status |-> "error", transcript_text |-> "", source |-> "none",
     source_url |-> "", tier |-> 5,
     error |-> "[Earnings call transcript not available from public sources]"]

\* the value returned when all tiers failed
TranscriptUnavailable ==
    [status |-> "error", transcript_text |-> "", source |-> "none",
     source_url |-> "", tier |-> 0,
     error |-> "[Earnings call transcript not available from public sources]"]

\* a resolver that tries tier 2 for every ticker
Tier2Unguarded(ticker) == TRUE

\* Tier 2 runs only for a ticker with a known CIK ("if cik:")
Tier2Guard(ticker) == Truthy(COMPANY_CIKS(ticker))

\* get_transcript as a function of the ticker and of the tier answers
get_transcript(ticker, a) ==
    LET r1 == _search_efts(a.t1)
        r2 == _search_submissions(a.t2)
        r3 == _search_fmp(a.t3)
        r4 == _search_transcript_web(a.t4)
        r5 == _read_local_transcript(a.t5)
    IN  IF Truthy(r1[1]) THEN TranscriptFound(r1[1], "SEC EDGAR (EFTS)", r1[2], 1)
        ELSE IF Tier2Guard(ticker) /\ Truthy(r2[1])
             THEN TranscriptFound(r2[1], "SEC EDGAR (8-K filing)", r2[2], 2)
        ELSE IF Truthy(r3[1])
             THEN TranscriptFound(r3[1], "Financial Modeling Prep API", r3[2], 3)
        ELSE IF Truthy(r4[1]) THEN TranscriptFound(r4[1], "Web search", r4[2], 4)
        ELSE IF Truthy(r5[1]) THEN TranscriptFound(r5[1], r5[2], "", 5)
        ELSE TranscriptUnavailable

(***************************************************************************)
(* agents/orchestrator.py: helpers.                                        *)
(***************************************************************************)
\* _sse_event: an event of a stream.  key is the step, the section or the memo
\* id the event names, data its remaining payload.
_sse_event(event, key, status, data) ==
    [event |-> event, key |-> key, status |-> status, data |-> data]

\* urlparse(url).netloc of the URLs the search leaf may return
Netloc(url) ==
    CASE url = "https://www.a.com/1" -> "www.a.com"
      [] url = "https://a.com/2" -> "a.com"
      [] url = "https://b.com/1" -> "b.com"
      [] url = "https://www.c.com/1" -> "www.c.com"
      [] OTHER -> ""

\* str.replace("www.", "") on the netlocs above
StripWww(netloc) ==
    CASE netloc = "www.a.com" -> "a.com"
      [] netloc = "www.c.com" -> "c.com"
      [] OTHER -> netloc

_extract_domain(url) ==
    LET domain == StripWww(Netloc(url))
    IN  IF domain # "" THEN domain ELSE url

RECURSIVE TopSourcesLoop(_, _, _, _)
TopSourcesLoop(search_results, max_n, sources, seen) ==
    IF search_results = <<>> THEN sources
    ELSE LET r == Head(search_results)
             url == r.href
             domain == _extract_domain(url)
             fresh == url # "" /\ domain # "" /\ domain \notin seen
             sources2 == IF fresh
                         THEN Append(sources, [url |-> url, domain |-> domain,
                                               label |-> <<IF r.title # "" THEN r.title ELSE domain>>])
                         ELSE sources
             seen2 == IF fresh THEN seen \cup {domain} ELSE seen
         IN  IF url = "" THEN TopSourcesLoop(Tail(search_results), max_n, sources, seen)
             ELSE IF Len(sources2) >= max_n THEN sources2
             ELSE TopSourcesLoop(Tail(search_results), max_n, sources2, seen2)

\* _top_sources: the first max_n results with pairwise different domains
_top_sources(search_results, max_n) == TopSourcesLoop(search_results, max_n, <<>>, {})

_confidence(level, reason) == [level |-> level, reason |-> reason]

\* an exception on its way out of an awaited call
Raised == [status |-> "raised"]

Escapes(res) == res.status = "raised"

RunStepError == [status |-> "error", error |-> "leaf raised"]

\* _run_step: a leaf that raises becomes an error-shaped payload
_run_step_uncaught(raises, payload) == IF raises THEN Raised ELSE payload

_run_step(raises, payload) == IF raises THEN RunStepError ELSE payload

\* a leaf call of the run, the section it is made for (the step id handed to
\* _run_step, the section_name handed to generate_section) and the transcript
\* text handed to the leaf, "" for a leaf that takes none
Call(leaf, section, transcript_text) == <<leaf, section, transcript_text>>

\* dict.get(key, default) on a payload
Get(d, k, default) == IF k \in DOMAIN d THEN d[k] ELSE default

(***************************************************************************)
(* _build_steps: the step tree of a selection, one node per selected key in *)
(* the order of the if-chain, then the quality-check node.                 *)
(***************************************************************************)
StepChildren(id) ==
    CASE id = "bio" -> <<"bio_search", "bio_draft">>
      [] id = "forecast" -> <<"forecast_read", "forecast_deltas">>
      [] id = "earnings" -> <<"transcript_fetch", "transcript_extract", "earnings_draft">>
      [] id = "peer" -> <<"peer_search", "peer_draft">>
      [] id = "valuation" -> <<"market_data">>
      [] id = "qc" -> <<"quality_check">>

\* a node that declares a sub-step the run never reports on
StepNodeWithSummary(id) ==
    [id |-> id, children |-> Append(StepChildren(id), id \o "_summary")]

StepNode(id) == [id |-> id, children |-> StepChildren(id)]

\* a chain that tests the valuation key first
ChainOrderValuationFirst == <<"valuation", "bio", "forecast", "earnings", "peer">>

\* the order of the "if ... in selected" chain
ChainOrder == <<"bio", "forecast", "earnings", "peer", "valuation">>

RECURSIVE BuildStepsFrom(_, _)
BuildStepsFrom(i, selected) ==
    IF i > Len(ChainOrder) THEN <<StepNode("qc")>>
    ELSE (IF ChainOrder[i] \in Range(selected) THEN <<StepNode(ChainOrder[i])>> ELSE <<>>)
         \o BuildStepsFrom(i + 1, selected)

_build_steps(selected) == BuildStepsFrom(1, selected)

\* the first leaf call of a section of the chain
FirstCall(id) ==
    CASE id = "bio" -> "bio_search"
      [] id = "forecast" -> "forecast_read"
      [] id = "earnings" -> "transcript_fetch"
      [] id = "peer" -> "peer_search"
      [] id = "valuation" -> "market_data"

\* the chain walked from its last block to its first
AfterBlockDescending(i, selected) ==
    LET from == IF i = 0 THEN Len(ChainOrder) + 1 ELSE i
        earlier == {j \in 1..(from - 1) : ChainOrder[j] \in Range(selected)}
    IN  IF earlier = {} THEN "quality_check"
        ELSE FirstCall(ChainOrder[CHOOSE j \in earlier : \A k \in earlier : j >= k])

\* a chain without its "in selected" tests: every block runs
AfterBlockUnguarded(i, selected) ==
    IF i >= Len(ChainOrder) THEN "quality_check" ELSE FirstCall(ChainOrder[i + 1])

\* where _run_orchestrator_inner goes after the i-th if-block of the chain:
\* the next block whose key is selected, else the quality check
AfterBlock(i, selected) ==
    LET later == {j \in (i + 1)..Len(ChainOrder) : ChainOrder[j] \in Range(selected)}
    IN  IF later = {} THEN "quality_check"
        ELSE FirstCall(ChainOrder[CHOOSE j \in later : \A k \in later : j <= k])

(***************************************************************************)
(* The leaves (agents/research.py, forecast.py, market_data.py,            *)
(* drafting.py) as functions of what the outside world answers.            *)
(***************************************************************************)
Hit(title, href) == [title |-> title, body |-> "snippet", href |-> href]

\* search_results lists the web search may produce
OneDomainHits == <<Hit("Profile", "https://www.a.com/1")>>

ThreeDomainHits ==
    <<Hit("Profile", "https://www.a.com/1"), Hit("Interview", "https://a.com/2"),
      Hit("", "https://b.com/1"), Hit("BrokerCheck", "https://www.c.com/1")>>

\* search_analyst_bio: "raise" is an exception escaping the leaf (caught by _run_step)
BioSearchAnswers == {"raise", "one_domain", "three_domains"}

search_analyst_bio(analyst_name, firm, a) ==
    [status |-> "success", analyst_name |-> analyst_name, firm |-> firm,
     search_results |-> IF a = "one_domain" THEN OneDomainHits ELSE ThreeDomainHits]

\* ordered dict as a sequence of <<key, value>> entries
DictKeys(d) == [i \in 1..Len(d) |-> d[i][1]]

DictHas(d, k) == \E i \in 1..Len(d) : d[i][1] = k

DictGet(d, k) == d[CHOOSE i \in 1..Len(d) : d[i][1] = k][2]

\* d[k] = v: a present key keeps its place
DictSet(d, k, v) ==
    IF DictHas(d, k) THEN [i \in 1..Len(d) |-> IF d[i][1] = k THEN <<k, v>> ELSE d[i]]
    ELSE Append(d, <<k, v>>)

\* search_peer_research: one result list per peer ticker, plus the sector search
PeerSearchAnswers == {"raise", "nothing", "commentary"}

PeerHits(a, i) ==
    IF a = "commentary" /\ i <= 3
    THEN <<Hit("Note", IF i = 1 THEN "https://www.a.com/1" ELSE "https://b.com/1")>>
    ELSE <<>>

search_peer_research(analyst_name, peer_tickers, a) ==
    [status |-> "success", analyst_name |-> analyst_name,
     peer_results |-> [i \in 1..Len(peer_tickers) |-> <<peer_tickers[i], PeerHits(a, i)>>],
     sector_results |-> IF a = "commentary"
                        THEN <<Hit("Sector", "https://www.c.com/1")>> ELSE <<>>]

\* read_forecast_data: the spreadsheet holds rows for KnownAnalyst only
KnownAnalyst == "Mike Mayo"

KnownFirm == "Wells Fargo"

ForecastAnswers == {"raise", "read_error", "current", "stale_gaps"}

Row(label, analyst, consensus, delta) ==
    [label |-> label, analyst |-> analyst, consensus |-> consensus, delta |-> delta]

CurrentRows ==
    <<Row("Firmwide Revenues", "17000", "16800", "+1.2%"), Row("EPS", "2.10", "2.00", "+5.0%"),
      Row("ROE", "15.0", None, "[Value unavailable]")>>

GapRows ==
    <<Row("Firmwide Revenues", None, "16800", "[Value unavailable]"),
      Row("EPS", None, None, "[Value unavailable]"),
      Row("ROE", "15.0", None, "[Value unavailable]")>>

read_forecast_data(analyst_name, a) ==
    IF a = "read_error"
    THEN [status |-> "error", error |-> "Failed to read Excel file"]
    ELSE IF analyst_name # KnownAnalyst
    THEN [status |-> "error", error |-> "Analyst not found in Excel file"]
    ELSE [status |-> "success", analyst_name |-> KnownAnalyst, firm |-> KnownFirm,
          date_updated |-> IF a = "current" THEN "this month" ELSE "last year",
          is_stale |-> (a = "stale_gaps"),
          table_rows |-> IF a = "current" THEN CurrentRows ELSE GapRows,
          rating |-> "Overweight", price_target |-> "150"]

\* get_valuation_data: failed = the symbols whose quote fetch fails
\* a failed fetch that leaves the last known price in the row
MetricsKeepingPrice(ok) == [price |-> "100.00", pe |-> IF ok THEN "12.3" ELSE None]

Metrics(ok) == [price |-> IF ok THEN "100.00" ELSE None, pe |-> IF ok THEN "12.3" ELSE None]

RECURSIVE TickerDict(_, _, _)
TickerDict(tickers, failed, d) ==
    IF tickers = <<>> THEN d
    ELSE TickerDict(Tail(tickers), failed,
                    DictSet(d, Head(tickers), Metrics(Head(tickers) \notin failed)))

get_valuation_data(tickers, failed) ==
    LET data == TickerDict(tickers, failed, <<>>)
        peers == IF Len(tickers) > 1 THEN Tail(tickers) ELSE <<>>
        vals == {i \in 1..Len(peers) : DictGet(data, peers[i]).price # None}
    IN  [status |-> "success", tickers |-> data, as_of |-> "now",
         peer_median |-> IF vals # {} THEN "median" ELSE None]

(***************************************************************************)
(* agents/drafting.py                                                      *)
(***************************************************************************)
\* what the text-generation call answers
GenAnswers == {"rich", "sparse", "api_error"}

GenFailedText == "[Section could not be generated]"

generate_section(section_name, a) ==
    IF a = "api_error"
    THEN [section |-> section_name, content |-> GenFailedText, status |-> "error"]
    ELSE [section |-> section_name,
          content |-> IF a = "rich" THEN "full draft" ELSE "thin draft",
          status |-> "success"]

EditAnswers == {"edited", "api_error"}

edit_section(section_name, current_content, a) ==
    IF a = "api_error"
    THEN [section |-> section_name, content |-> current_content, status |-> "error"]
    ELSE [section |-> section_name, content |-> "edited draft", status |-> "success"]

\* edit_forecast_table returns the parsed list, or None (here <<>>, equally falsy)
TableAnswers == {"modified", "empty_list", "not_a_list", "api_error"}

edit_forecast_table(table_rows, a) ==
    IF a = "modified" THEN Append(table_rows, Row("Subtotal", "17002", None, None))
    ELSE <<>>

\* run_quality_check: "json_list" is valid JSON that is no object
QcAnswers == {"verdict", "not_json", "api_error", "json_list"}

run_quality_check(a) ==
    CASE a = "verdict" -> [overall_status |-> "pass", summary |-> "ok"]
      [] a = "not_json" -> [overall_status |-> "warnings", summary |-> "raw text"]
      [] a = "api_error" -> [overall_status |-> "error",
                             summary |-> "Quality check could not be completed"]
      [] a = "json_list" -> [list |-> "parsed JSON array"]

(***************************************************************************)
(* What the orchestrator reads out of a drafted text.                      *)
(***************************************************************************)
\* firms counted on the "prior experience" line
FirmCount(content) == IF content = "full draft" THEN 3 ELSE 0

\* blockquotes opening with a quotation mark
QuestionCount(content) ==
    CASE content = "full draft" -> 2
      [] content = "thin draft" -> 1
      [] OTHER -> 0

\* age in months of the date found in a peer draft, -1 when no date parses
PeerMonthsOld(content) == IF content = "full draft" THEN 1 ELSE -1

Str(n) ==
    CASE n = 0 -> "0" [] n = 1 -> "1" [] n = 2 -> "2" [] n = 3 -> "3" [] n = 4 -> "4"
      [] n = 5 -> "5" [] n = 6 -> "6" [] n = 7 -> "7" [] n = 8 -> "8" [] OTHER -> "many"

(***************************************************************************)
(* Confidence rules of the initial run (_run_orchestrator_inner).          *)
(* A reason is <<template, parameter>>.                                    *)
(***************************************************************************)
BioConfidence(n_domains, career_incomplete) ==
    IF n_domains >= 3 /\ ~career_incomplete
    THEN _confidence("high", <<"sources found", Str(n_domains)>>)
    ELSE IF n_domains >= 3 /\ career_incomplete
    THEN _confidence("medium", <<"Career history may be incomplete", "">>)
    ELSE IF n_domains >= 1
    THEN _confidence("medium", <<"Only sources found", Str(n_domains)>>)
    ELSE _confidence("low", <<"No web sources found", "">>)

MissingCount(table_rows) ==
    Cardinality({i \in 1..Len(table_rows) :
                    table_rows[i].analyst = None \/ table_rows[i].consensus = None})

\* a rule that lets a third missing value pass
ForecastConfidenceTolerant(is_stale, missing_count, date_updated) ==
    IF is_stale /\ missing_count > 0
    THEN _confidence("low", <<"Data is stale and values missing", Str(missing_count)>>)
    ELSE IF is_stale
    THEN _confidence("medium", <<"Data is older than 30 days", date_updated>>)
    ELSE IF missing_count > 3
    THEN _confidence("medium", <<"forecast values missing", Str(missing_count)>>)
    ELSE _confidence("high", <<"Data current, missing values", Str(missing_count)>>)

ForecastConfidence(is_stale, missing_count, date_updated) ==
    IF is_stale /\ missing_count > 0
    THEN _confidence("low", <<"Data is stale and values missing", Str(missing_count)>>)
    ELSE IF is_stale
    THEN _confidence("medium", <<"Data is older than 30 days", date_updated>>)
    ELSE IF missing_count > 2
    THEN _confidence("medium", <<"forecast values missing", Str(missing_count)>>)
    ELSE _confidence("high", <<"Data current, missing values", Str(missing_count)>>)

\* a rule without the branch of the bundled file
EarningsConfidenceAnyTier(has_transcript, limited_participation, is_local_file, is_snippets, source) ==
    IF ~has_transcript THEN _confidence("low", <<"Transcript not available", "">>)
    ELSE IF limited_participation
    THEN _confidence("medium", <<"Limited analyst participation found in transcript", "">>)
    ELSE IF is_snippets
    THEN _confidence("medium", <<"Only web search snippets available", "">>)
    ELSE _confidence("high", <<"Full transcript retrieved from", source>>)

EarningsConfidence(has_transcript, limited_participation, is_local_file, is_snippets, source) ==
    IF ~has_transcript THEN _confidence("low", <<"Transcript not available", "">>)
    ELSE IF limited_participation
    THEN _confidence("medium", <<"Limited analyst participation found in transcript", "">>)
    ELSE IF is_local_file
    THEN _confidence("medium", <<"Using bundled demo transcript", "">>)
    ELSE IF is_snippets
    THEN _confidence("medium", <<"Only web search snippets available", "">>)
    ELSE _confidence("high", <<"Full transcript retrieved from", source>>)

\* peer_stale_note, "" for None
PeerStaleNote(months_old, peer_content, n_peers_with_results) ==
    IF months_old >= 0
    THEN (IF months_old > 6 THEN "Most recent commentary may not reflect current views"
          ELSE IF months_old >= 3 THEN "Commentary is months old"
          ELSE "")
    ELSE IF peer_content # "" /\ n_peers_with_results >= 1
    THEN "Publication date could not be verified"
    ELSE ""

PeerConfidence(peer_stale_note, n_peers_with_results, n_domains) ==
    IF peer_stale_note # "" THEN _confidence("medium", <<peer_stale_note, "">>)
    ELSE IF n_peers_with_results >= 3 /\ n_domains >= 2
    THEN _confidence("high", <<"Recent commentary found from peers", Str(n_peers_with_results)>>)
    ELSE IF n_peers_with_results >= 1
    THEN _confidence("medium", <<"Limited results", Str(n_peers_with_results)>>)
    ELSE _confidence("low", <<"No peer commentary found", "">>)

ValuationConfidence(n_failures, n_tickers) ==
    IF n_failures = 0 THEN _confidence("high", <<"All tickers retrieved", Str(n_tickers)>>)
    ELSE IF n_failures <= 2 THEN _confidence("medium", <<"tickers failed", Str(n_failures)>>)
    ELSE _confidence("low", <<"Major data gaps", Str(n_failures)>>)

(***************************************************************************)
(* State.                                                                  *)
(***************************************************************************)
VARIABLES
    \* one resolution of get_transcript, tier by tier
    tpc,          \* "t1".."t5": the tier to try next; "done" after the return
    ticker,       \* argument of get_transcript
    answers,      \* what each tier's source answers in this resolution
    invoked,      \* the tier functions called so far, in call order
    tresult,      \* the returned dictionary
    \* main.py
    memo_store,   \* session id -> stored report
    \* one run of run_orchestrator
    pc,           \* the leaf call the run is about to make; "idle", "done"
    analyst_name, company, selected,   \* its arguments
    firm,         \* the firm looked up for the analyst
    memo,         \* the report under construction
    result,       \* the payload of the last acquisition leaf
    events,       \* the events yielded so far
    calls,        \* the leaves called so far, each with the section it was called for
    \* the requests to run_regeneration
    regen,        \* slot -> the frame of that regeneration and its events
    \* one call of _parse_ticker_changes, pass by pass
    parse_pc,       \* "replace", "add", "remove": the pass to run next
    parse_text,     \* the instruction, upper-cased, as its words
    parse_current,  \* current_tickers
    parse_tickers,  \* the working copy "tickers"
    parse_changed,  \* the flag "changed"
    parse_result,   \* the returned list
    \* one call of search_analyst_bio, query by query
    search_pc,      \* "query": the loop runs; "return"; "done"
    query_answers,  \* what the web search answers to each of the queries
    query_i,        \* the query the loop is at
    all_results,    \* the list "all_results"
    search_return,  \* the returned dictionary
    \* one call of get_valuation_data
    quotes_pc,      \* "gather": the fetches are awaited; "done"
    quote_symbols,  \* the argument "tickers"
    quote_failed,   \* the symbols whose fetch raises
    quotes_return   \* the returned dictionary

tvars == <<tpc, ticker, answers, invoked, tresult>>

pvars == <<parse_pc, parse_text, parse_current, parse_tickers, parse_changed, parse_result>>

fvars == <<search_pc, query_answers, query_i, all_results, search_return,
          quotes_pc, quote_symbols, quote_failed, quotes_return>>

rvars == <<pc, analyst_name, company, selected, firm, memo, result, events, calls>>

vars == <<tpc, ticker, answers, invoked, tresult, memo_store,
          pc, analyst_name, company, selected, firm, memo, result, events, calls, regen,
          parse_pc, parse_text, parse_current, parse_tickers, parse_changed, parse_result,
          search_pc, query_answers, query_i, all_results, search_return,
          quotes_pc, quote_symbols, quote_failed, quotes_return>>

\* get_transcript has not returned yet
NoResult == [status |-> "pending"]

NoMemo == [sections |-> <<>>]

\* the resolver is not running
TIdle ==
    /\ tpc = "off" /\ ticker = "" /\ invoked = <<>> /\ tresult = NoResult
    /\ answers = [t1 |-> "raise", t2 |-> "raise", t3 |-> "raise", t4 |-> "raise", t5 |-> "raise"]

\* no run has been requested and the store is empty
RIdle ==
    /\ memo_store = <<>>
    /\ pc = "idle" /\ analyst_name = "" /\ company = "" /\ selected = <<>> /\ firm = ""
    /\ memo = NoMemo /\ result = NoResult /\ events = <<>> /\ calls = <<>>

\* the regenerations the model follows, one slot each
Slots == 1..MaxRegens

\* the frame of _run_regeneration_inner before a request and after its return;
\* revents are the events it yielded, rcalls the leaves it called and their answers
NoRegen ==
    [rpc |-> "idle", section |-> "", analyst_name |-> "", instruction |-> <<>>,
     re_search |-> FALSE, memo_id |-> "", current_content |-> "", firm |-> "",
     existing_section |-> <<>>, content_to_edit |-> "", result |-> NoResult,
     new_tickers |-> <<>>, revents |-> <<>>, rcalls |-> <<>>]

\* no regeneration has been requested
GIdle == regen = [p \in Slots |-> NoRegen]

\* the parser of ticker edits is not running
PIdle ==
    /\ parse_pc = "off" /\ parse_text = <<>> /\ parse_current = <<>>
    /\ parse_tickers = <<>> /\ parse_changed = FALSE /\ parse_result = <<>>

\* neither fan-out leaf is followed call by call
FIdle ==
    /\ search_pc = "off" /\ query_answers = <<>> /\ query_i = 0 /\ all_results = <<>>
    /\ search_return = NoResult
    /\ quotes_pc = "off" /\ quote_symbols = <<>> /\ quote_failed = {}
    /\ quotes_return = NoResult

(***************************************************************************)
(* get_transcript, one tier per step.                                      *)
(***************************************************************************)
Tickers == {"MS", "GS"}

TInit ==
    /\ tpc = "t1"
    /\ ticker \in Tickers
    /\ answers \in TierAnswers
    /\ invoked = <<>>
    /\ tresult = NoResult
    /\ RIdle /\ GIdle /\ PIdle /\ FIdle

Tier1 ==
    /\ tpc = "t1"
    /\ LET r == _search_efts(answers.t1)
       IN  /\ invoked' = Append(invoked, 1)
           /\ IF Truthy(r[1])
              THEN /\ tresult' = TranscriptFound(r[1], "SEC EDGAR (EFTS)", r[2], 1)
                   /\ tpc' = "done"
              ELSE /\ tresult' = tresult
                   /\ tpc' = "t2"
    /\ UNCHANGED <<ticker, answers, memo_store, rvars, regen, pvars, fvars>>

Tier2 ==
    /\ tpc = "t2"
    /\ IF Tier2Guard(ticker)
       THEN LET r == _search_submissions(answers.t2)
            IN  /\ invoked' = Append(invoked, 2)
                /\ IF Truthy(r[1])
                   THEN /\ tresult' = TranscriptFound(r[1], "SEC EDGAR (8-K filing)", r[2], 2)
                        /\ tpc' = "done"
                   ELSE /\ tresult' = tresult
                        /\ tpc' = "t3"
       ELSE /\ invoked' = invoked
            /\ tresult' = tresult
            /\ tpc' = "t3"
    /\ UNCHANGED <<ticker, answers, memo_store, rvars, regen, pvars, fvars>>

Tier3 ==
    /\ tpc = "t3"
    /\ LET r == _search_fmp(answers.t3)
       IN  /\ invoked' = Append(invoked, 3)
           /\ IF Truthy(r[1])
              THEN /\ tresult' = TranscriptFound(r[1], "Financial Modeling Prep API", r[2], 3)
                   /\ tpc' = "done"
              ELSE /\ tresult' = tresult
                   /\ tpc' = "t4"
    /\ UNCHANGED <<ticker, answers, memo_store, rvars, regen, pvars, fvars>>

Tier4 ==
    /\ tpc = "t4"
    /\ LET r == _search_transcript_web(answers.t4)
       IN  /\ invoked' = Append(invoked, 4)
           /\ IF Truthy(r[1])
              THEN /\ tresult' = TranscriptFound(r[1], "Web search", r[2], 4)
                   /\ tpc' = "done"
              ELSE /\ tresult' = tresult
                   /\ tpc' = "t5"
    /\ UNCHANGED <<ticker, answers, memo_store, rvars, regen, pvars, fvars>>

Tier5 ==
    /\ tpc = "t5"
    /\ LET r == _read_local_transcript(answers.t5)
       IN  /\ invoked' = Append(invoked, 5)
           /\ tresult' = IF Truthy(r[1])
                         THEN TranscriptFound(r[1], r[2], "", 5)
                         ELSE TranscriptUnavailable
           /\ tpc' = "done"
    /\ UNCHANGED <<ticker, answers, memo_store, rvars, regen, pvars, fvars>>

TNext == Tier1 \/ Tier2 \/ Tier3 \/ Tier4 \/ Tier5

SpecT == TInit /\ [][TNext]_vars

(***************************************************************************)
(* main.py generate_memo and run_orchestrator / _run_orchestrator_inner.   *)
(***************************************************************************)
Analysts == {KnownAnalyst, ""}

Companies == {"MS", "GS"}

\* the section ids a client may send: the five known ones and an unknown one
RequestKeys == Range(SECTION_IDS) \cup {"other"}

RECURSIVE SeqsUpTo(_, _)
SeqsUpTo(S, n) ==
    IF n = 0 THEN {<<>>}
    ELSE SeqsUpTo(S, n - 1) \cup
         {Append(q, x) : q \in {r \in SeqsUpTo(S, n - 1) : Len(r) = n - 1}, x \in S}

\* the "sections" query parameter, split at the commas
Selections == SeqsUpTo(RequestKeys, MaxSel) \cup {<<"all">>}

\* generate_memo: selected = SECTION_IDS if sections == "all" else the split list
ParseSections(sections) == IF sections = <<"all">> THEN SECTION_IDS ELSE sections

\* str(uuid.uuid4())[:8]
MemoIds == {"m1"}

ServerError == _sse_event("server_error", "", "", <<"Orchestrator error">>)

StepUpdate(step, status) == _sse_event("step_update", step, status, <<>>)

\* rec[k] = v for k in sources, confidence
WithProvenance(rec, sources, confidence) ==
    [sources |-> sources, confidence |-> confidence] @@ rec

\* a store that leaves out the records of failed acquisitions
PutSectionSkippingErrors(m, key, rec) ==
    IF "error" \in DOMAIN rec THEN m ELSE [m EXCEPT !.sections = (key :> rec) @@ @]

\* memo["sections"][key] = rec
PutSection(m, key, rec) == [m EXCEPT !.sections = (key :> rec) @@ @]

\* an except branch that closes the stream without reporting the fault
CrashSilently(evs) ==
    /\ events' = evs
    /\ pc' = "done"

\* run_orchestrator's except branch: the fault becomes the last event of the stream
Crash(evs) ==
    /\ events' = Append(evs, ServerError)
    /\ pc' = "done"

generate_memo(analyst, comp, sections) ==
    /\ pc = "idle"
    /\ analyst_name' = analyst
    /\ company' = comp
    /\ selected' = ParseSections(sections)
    /\ \E excel_ok \in BOOLEAN :
          IF ~excel_ok
          THEN /\ Crash(events)
               /\ UNCHANGED <<firm, memo>>
          ELSE /\ firm' = IF analyst = KnownAnalyst THEN KnownFirm ELSE ""
               /\ events' = <<_sse_event("steps", "", "", _build_steps(selected'))>>
               /\ memo' = [analyst |-> analyst, firm |-> firm', company |-> comp,
                           date |-> "today", sections |-> <<>>]
               /\ pc' = AfterBlock(0, selected')
    /\ UNCHANGED <<memo_store, result, calls, tvars, fvars, pvars, regen>>

BioSearch ==
    /\ pc = "bio_search"
    /\ \E a \in BioSearchAnswers :
          LET res == _run_step(a = "raise", search_analyst_bio(analyst_name, firm, a))
              bio_status == IF res.status = "success" THEN "complete" ELSE "error"
              running == Append(events, StepUpdate("bio_search", "running"))
          IN  /\ result' = res
              /\ IF Escapes(res) THEN Crash(running)
                 ELSE /\ events' = Append(running, StepUpdate("bio_search", bio_status))
                      /\ pc' = "bio_draft"
    /\ calls' = Append(calls, Call("search_analyst_bio", "bio", ""))
    /\ UNCHANGED <<memo_store, analyst_name, company, selected, firm, memo, tvars, fvars, pvars, regen>>

BioDraft ==
    /\ pc = "bio_draft"
    /\ \E a \in GenAnswers :
          LET bio_section == generate_section("bio", a)
              bio_sources == _top_sources(Get(result, "search_results", <<>>), 5)
              career_incomplete == FirmCount(bio_section.content) < 3
              bio_confidence == BioConfidence(Len(bio_sources), career_incomplete)
              rec == WithProvenance(bio_section, bio_sources, bio_confidence)
          IN  /\ memo' = PutSection(memo, "bio", rec)
              /\ events' = events \o <<StepUpdate("bio_draft", "running"),
                                       StepUpdate("bio_draft", "complete"),
                                       _sse_event("section", "bio", "", rec)>>
    /\ calls' = Append(calls, Call("generate_section", "bio", ""))
    /\ result' = NoResult
    /\ pc' = AfterBlock(1, selected)
    /\ UNCHANGED <<memo_store, analyst_name, company, selected, firm, tvars, fvars, pvars, regen>>

ForecastSources(analyst, frm, date_updated) ==
    <<[domain |-> "analyst_key_metrics.xlsx", url |-> "",
       label |-> <<"Row", analyst, frm, date_updated>>]>>

\* an error record without a confidence rating
ForecastErrorRecordUnrated(res) ==
    [error |-> Get(res, "error", "Failed"), sources |-> <<>>]

ForecastErrorRecord(res) ==
    [error |-> Get(res, "error", "Failed"), sources |-> <<>>,
     confidence |-> _confidence("low", <<"Forecast data unavailable", "">>)]

\* the forecast block, the read drawn from outcomes: pairs of "the leaf raises"
\* and the dict it returns otherwise
ForecastReadOf(outcomes) ==
    /\ pc = "forecast_read"
    /\ \E o \in outcomes :
          LET res == _run_step(o[1], o[2])
              running == Append(events, StepUpdate("forecast_read", "running"))
          IN  IF Escapes(res) THEN Crash(running) /\ UNCHANGED memo
              ELSE IF res.status = "success"
              THEN LET fc_confidence == ForecastConfidence(res.is_stale,
                                            MissingCount(res.table_rows), res.date_updated)
                       rec == WithProvenance(res,
                                  ForecastSources(analyst_name, firm, res.date_updated),
                                  fc_confidence)
                   IN  /\ events' = running \o
                              <<StepUpdate("forecast_read", "complete"),
                                StepUpdate("forecast_deltas", "running"),
                                StepUpdate("forecast_deltas", "complete"),
                                _sse_event("forecast", "forecast", "", rec)>>
                       /\ memo' = PutSection(memo, "forecast", rec)
                       /\ pc' = AfterBlock(2, selected)
              ELSE /\ events' = running \o
                          <<StepUpdate("forecast_read", "error"),
                            StepUpdate("forecast_deltas", "error")>>
                   /\ memo' = PutSection(memo, "forecast", ForecastErrorRecord(res))
                   /\ pc' = AfterBlock(2, selected)
    /\ calls' = Append(calls, Call("read_forecast_data", "forecast", ""))
    /\ UNCHANGED <<memo_store, analyst_name, company, selected, firm, result, tvars, fvars, pvars, regen>>

ForecastOutcomes(analyst) ==
    {<<a = "raise", read_forecast_data(analyst, a)>> : a \in ForecastAnswers}

ForecastRead == ForecastReadOf(ForecastOutcomes(analyst_name))

\* the tier answers the runs and regenerations draw from
AllTiersFail ==
    [t1 |-> "raise", t2 |-> "no_response", t3 |-> "no_key", t4 |-> "no_article",
     t5 |-> "missing"]

RunTierAnswers ==
    {AllTiersFail, [AllTiersFail EXCEPT !.t5 = "file"],
     [AllTiersFail EXCEPT !.t2 = "qa_filing", !.t5 = "file"]}

\* analyst_name.split() is empty: analyst_name.split()[-1] raises IndexError
NoWords(name) == name = ""

UnavailableText == "[Earnings call transcript not available from public sources]"

\* "[Partial transcript" in transcript_text
IsSnippets(text) == text = "[Partial transcript] snippets"

HasTranscript(res) ==
    Get(res, "status", "") = "success" /\ Get(res, "transcript_text", "") # ""

\* provenance that names a source whether or not a transcript came back
TranscriptSourcesUnconditional(res) ==
    <<[domain |-> Get(res, "source", "N/A"), url |-> Get(res, "source_url", ""),
       label |-> <<"Transcript from", Get(res, "source", "N/A"), "(n characters)">>]>>

TranscriptSources(res) ==
    IF HasTranscript(res)
    THEN <<[domain |-> Get(res, "source", "N/A"), url |-> Get(res, "source_url", ""),
            label |-> <<"Transcript from", Get(res, "source", "N/A"), "(n characters)">>]>>
    ELSE <<>>

\* the first half of the earnings block, the resolver's return drawn from found
TranscriptFetchOf(found) ==
    /\ pc = "transcript_fetch"
    /\ \E tr \in found :
          LET res == _run_step(FALSE, tr)
              running == Append(events, StepUpdate("transcript_fetch", "running"))
              extract == <<StepUpdate("transcript_extract", "running"),
                           StepUpdate("transcript_extract", "complete")>>
          IN  /\ result' = res
              /\ IF Escapes(res) THEN Crash(running)
                 ELSE IF HasTranscript(res)
                 THEN IF Get(res, "tier", 0) = 5 /\ NoWords(analyst_name)
                      THEN Crash(running)
                      ELSE /\ events' = Append(running,
                                               StepUpdate("transcript_fetch", "complete"))
                                        \o extract
                           /\ pc' = "earnings_draft"
                 ELSE /\ events' = Append(running, StepUpdate("transcript_fetch", "error"))
                                   \o extract
                      /\ pc' = "earnings_draft"
    /\ calls' = Append(calls, Call("get_transcript", "earnings", ""))
    /\ UNCHANGED <<memo_store, analyst_name, company, selected, firm, memo, tvars, fvars, pvars, regen>>

TranscriptFetch == TranscriptFetchOf({get_transcript(company, a) : a \in RunTierAnswers})

EarningsDraft ==
    /\ pc = "earnings_draft"
    /\ \E a \in GenAnswers :
          LET text0 == Get(result, "transcript_text", "")
              transcript_text == IF text0 = "" THEN UnavailableText ELSE text0
              earnings_section == generate_section("earnings", a)
              limited_participation == QuestionCount(earnings_section.content) < 2
              earnings_confidence ==
                  EarningsConfidence(HasTranscript(result), limited_participation,
                                     Get(result, "tier", 0) = 5, IsSnippets(transcript_text),
                                     Get(result, "source", "N/A"))
              rec == WithProvenance(earnings_section, TranscriptSources(result),
                                    earnings_confidence)
          IN  /\ memo' = PutSection(memo, "earnings", rec)
              /\ events' = events \o <<StepUpdate("earnings_draft", "running"),
                                       StepUpdate("earnings_draft", "complete"),
                                       _sse_event("section", "earnings", "", rec)>>
              /\ calls' = Append(calls, Call("generate_section", "earnings", transcript_text))
    /\ result' = NoResult
    /\ pc' = AfterBlock(3, selected)
    /\ UNCHANGED <<memo_store, analyst_name, company, selected, firm, tvars, fvars, pvars, regen>>

RECURSIVE Concat(_)
Concat(lists) == IF lists = <<>> THEN <<>> ELSE Head(lists) \o Concat(Tail(lists))

\* every hit of every peer, then the sector hits
AllPeerHits(res) ==
    LET pr == Get(res, "peer_results", <<>>)
    IN  Concat([i \in 1..Len(pr) |-> pr[i][2]]) \o Get(res, "sector_results", <<>>)

PeersWithResults(res) ==
    LET pr == Get(res, "peer_results", <<>>)
    IN  Cardinality({i \in 1..Len(pr) : pr[i][2] # <<>>})

PeerSearch ==
    /\ pc = "peer_search"
    /\ \E a \in PeerSearchAnswers :
          LET res == _run_step(a = "raise",
                               search_peer_research(analyst_name, PEER_TICKERS, a))
              running == Append(events, StepUpdate("peer_search", "running"))
          IN  /\ result' = res
              /\ IF Escapes(res) THEN Crash(running)
                 ELSE /\ events' = Append(running, StepUpdate("peer_search",
                                       IF res.status = "success" THEN "complete" ELSE "error"))
                      /\ pc' = "peer_draft"
    /\ calls' = Append(calls, Call("search_peer_research", "peer", ""))
    /\ UNCHANGED <<memo_store, analyst_name, company, selected, firm, memo, tvars, fvars, pvars, regen>>

PeerDraft ==
    /\ pc = "peer_draft"
    /\ \E a \in GenAnswers :
          LET peer_section == generate_section("peer", a)
              peer_sources == _top_sources(AllPeerHits(result), 5)
              n_peers_with_results == PeersWithResults(result)
              peer_stale_note == PeerStaleNote(PeerMonthsOld(peer_section.content),
                                               peer_section.content, n_peers_with_results)
              peer_confidence == PeerConfidence(peer_stale_note, n_peers_with_results,
                                                Len(peer_sources))
              rec == WithProvenance(peer_section, peer_sources, peer_confidence)
          IN  /\ memo' = PutSection(memo, "peer", rec)
              /\ events' = events \o <<StepUpdate("peer_draft", "running"),
                                       StepUpdate("peer_draft", "complete"),
                                       _sse_event("section", "peer", "", rec)>>
    /\ calls' = Append(calls, Call("generate_section", "peer", ""))
    /\ result' = NoResult
    /\ pc' = AfterBlock(4, selected)
    /\ UNCHANGED <<memo_store, analyst_name, company, selected, firm, tvars, fvars, pvars, regen>>

\* what the quote pull answers: it raises, or the quotes of some symbols fail
ValuationAnswers ==
    {[raise |-> TRUE, failed |-> {}], [raise |-> FALSE, failed |-> {}],
     [raise |-> FALSE, failed |-> {"GS", "JPM", "BAC"}]}

Failures(tickers_data) ==
    Cardinality({i \in 1..Len(tickers_data) : tickers_data[i][2].price = None})

\* the price of the target symbol, as the source label prints it
PriceStr(tickers_data, target) ==
    IF DictHas(tickers_data, target) /\ DictGet(tickers_data, target).price # None
    THEN DictGet(tickers_data, target).price ELSE "N/A"

ValuationSources(tickers_data, target, as_of) ==
    <<[domain |-> "Yahoo Finance API", url |-> "",
       label |-> <<"Real-time data", target, PriceStr(tickers_data, target), as_of>>]>>

ValuationErrorRecord(res) ==
    [error |-> Get(res, "error", "Failed"), sources |-> <<>>,
     confidence |-> _confidence("low", <<"Valuation data unavailable", "">>)]

MarketData ==
    /\ pc = "market_data"
    /\ \E a \in ValuationAnswers :
          LET res == _run_step(a.raise, get_valuation_data(ALL_TICKERS, a.failed))
              running == Append(events, StepUpdate("market_data", "running"))
          IN  IF Escapes(res) THEN Crash(running) /\ UNCHANGED memo
              ELSE IF res.status = "success"
              THEN LET val_confidence == ValuationConfidence(Failures(res.tickers),
                                                             Len(res.tickers))
                       rec == WithProvenance(res,
                                  ValuationSources(res.tickers, "MS", res.as_of),
                                  val_confidence)
                   IN  /\ events' = running \o <<StepUpdate("market_data", "complete"),
                                                 _sse_event("valuation", "valuation", "", rec)>>
                       /\ memo' = PutSection(memo, "valuation", rec)
                       /\ pc' = AfterBlock(5, selected)
              ELSE /\ events' = Append(running, StepUpdate("market_data", "error"))
                   /\ memo' = PutSection(memo, "valuation", ValuationErrorRecord(res))
                   /\ pc' = AfterBlock(5, selected)
    /\ calls' = Append(calls, Call("get_valuation_data", "valuation", ""))
    /\ UNCHANGED <<memo_store, analyst_name, company, selected, firm, result, tvars, fvars, pvars, regen>>

\* qc_result.get(...) raises AttributeError on a result that is no dict
IsDict(qc_result) == "list" \notin DOMAIN qc_result

\* memo_store[memo_id] = memo
StoreMemo(store, memo_id, m) == (memo_id :> m) @@ store

\* a run that stores its report before it reads the verdict
StoreBeforeVerdict(reached, store, memo_id, m) == StoreMemo(store, memo_id, m)

\* the store is written last: a fault before that line leaves the store alone
StoreIfReached(reached, store, memo_id, m) ==
    IF reached THEN StoreMemo(store, memo_id, m) ELSE store

\* the quality check, the store and "complete", with memo_id drawn from ids
QualityCheckWith(ids) ==
    /\ pc = "quality_check"
    /\ \E a \in QcAnswers, memo_id \in ids :
          LET qc_result == run_quality_check(a)
              memo2 == ("quality_check" :> qc_result) @@ memo
              evs == events \o <<StepUpdate("quality_check", "running"),
                                 _sse_event("quality_check", "", "", qc_result)>>
          IN  /\ memo' = memo2
              /\ memo_store' = StoreIfReached(IsDict(qc_result), memo_store, memo_id, memo2)
              /\ IF ~IsDict(qc_result)
                 THEN Crash(evs)
                 ELSE /\ events' = evs \o <<StepUpdate("quality_check", "complete"),
                                            _sse_event("complete", memo_id, "", <<>>)>>
                      /\ pc' = "done"
    /\ calls' = Append(calls, Call("run_quality_check", "qc", ""))
    /\ UNCHANGED <<analyst_name, company, selected, firm, result, tvars, fvars, pvars, regen>>

QualityCheck == QualityCheckWith(MemoIds)

RunStep ==
    \/ BioSearch \/ BioDraft \/ ForecastRead \/ TranscriptFetch \/ EarningsDraft
    \/ PeerSearch \/ PeerDraft \/ MarketData \/ QualityCheck

(***************************************************************************)
(* SpecRun: one run of the orchestration engine for every request.         *)
(***************************************************************************)
RunInit == TIdle /\ RIdle /\ GIdle /\ PIdle /\ FIdle

RunNext ==
    \/ \E a \in Analysts, c \in Companies, s \in Selections : generate_memo(a, c, s)
    \/ RunStep

SpecRun == RunInit /\ [][RunNext]_vars

(***************************************************************************)
(* Claims about the transcript resolver (checked under SpecT).             *)
(***************************************************************************)
\* the text tier t would return in this resolution
TierText(t) ==
    CASE t = 1 -> _search_efts(answers.t1)[1]
      [] t = 2 -> _search_submissions(answers.t2)[1]
      [] t = 3 -> _search_fmp(answers.t3)[1]
      [] t = 4 -> _search_transcript_web(answers.t4)[1]
      [] t = 5 -> _read_local_transcript(answers.t5)[1]

HasCik == ticker = "MS"

\* the tiers get_transcript may call for this ticker
Attempted == {t \in 1..5 : t # 2 \/ HasCik}

Winners == {t \in Attempted : Truthy(TierText(t))}

LowestWinner == IF Winners = {} THEN 0 ELSE CHOOSE t \in Winners : \A u \in Winners : t <= u

\* C3 as stated: when the resolution reports tier k, every tier 1..k was
\* invoked exactly once, in ascending order, and no later tier, for every ticker.
C3_AllTiersUpToK ==
    (tpc = "done" /\ tresult.tier \in 1..5) =>
        invoked = [i \in 1..tresult.tier |-> i]

\* C3 (amended): the tiers are called in strictly ascending order, each at most
\* once, nothing is called after a tier that returned a payload, tier 2 is called
\* only for a ticker with a known CIK, and a finished resolution reports the
\* lowest attempted tier k that returns a payload, having called exactly the
\* attempted tiers up to k (all attempted tiers when none returns a payload).
C3_TiersAscendingUntilFirstPayload ==
    /\ \A i, j \in 1..Len(invoked) : i < j => invoked[i] < invoked[j]
    /\ \A i \in 1..Len(invoked) : i < Len(invoked) => ~Truthy(TierText(invoked[i]))
    /\ Range(invoked) \subseteq Attempted
    /\ tpc = "done" =>
          /\ tresult.tier = LowestWinner
          /\ Range(invoked) =
                {t \in Attempted : t <= (IF LowestWinner = 0 THEN 5 ELSE LowestWinner)}

C3_Witness ==
    /\ tpc = "done" /\ ticker = "GS" /\ tresult.tier = 4 /\ invoked = <<1, 3, 4>>
    /\ answers.t2 = "qa_filing" /\ answers.t5 = "file"

\* C4: get_transcript always returns a dictionary; when every tier fails it is
\* status error, tier 0, empty text, empty source URL; and in every result
\* status = success iff tier in 1..5 iff the text is non-empty.
C4_ResultNeverPartial ==
    tpc = "done" =>
        /\ {"status", "transcript_text", "source", "source_url", "tier"} \subseteq DOMAIN tresult
        /\ (tresult.status = "success") <=> (tresult.tier \in 1..5)
        /\ (tresult.tier \in 1..5) <=> (tresult.transcript_text # "")
        /\ tresult.status \in {"success", "error"}
        /\ tresult.tier \in 0..5
        /\ (\A t \in 1..5 : ~Truthy(TierText(t))) =>
              /\ tresult.status = "error" /\ tresult.tier = 0
              /\ tresult.transcript_text = "" /\ tresult.source_url = ""

C4_Witness ==
    /\ tpc = "done" /\ tresult.tier = 0 /\ tresult.status = "error"
    /\ answers.t1 = "raise" /\ answers.t5 = "raise" /\ Len(invoked) = 5

(***************************************************************************)
(* Per-section regeneration (main.py regenerate_section, orchestrator.py   *)
(* run_regeneration and _run_regeneration_inner).                          *)
(***************************************************************************)
\* An instruction is the list of the ticker directives its text holds; text
\* that matches no directive pattern is a "TEXT" entry, "" is the empty list.
Text == [op |-> "TEXT", old |-> "", new |-> ""]

Replace(old, new) == [op |-> "REPLACE", old |-> old, new |-> new]

Add(new) == [op |-> "ADD", old |-> "", new |-> new]

Remove(old) == [op |-> "REMOVE", old |-> old, new |-> ""]

IndexOf(seq, x) == CHOOSE i \in 1..Len(seq) : seq[i] = x /\ \A j \in 1..(i - 1) : seq[j] # x

\* list.remove(x): the first occurrence goes
RemoveFirst(seq, x) ==
    LET i == IndexOf(seq, x)
    IN  [j \in 1..(Len(seq) - 1) |-> IF j < i THEN seq[j] ELSE seq[j + 1]]

\* a guard that lets a directive act on the subject of the list as well
InListAnySymbol(old, tickers, target) == old \in Range(tickers)

\* "if old in tickers and old != target": the subject of the list is exempt
InListNotTarget(old, tickers, target) == old \in Range(tickers) /\ old # target

\* one pass of re.finditer over the instruction for the directives of one kind
RECURSIVE ApplyDirectives(_, _, _, _)
ApplyDirectives(op, directives, tickers, target) ==
    IF directives = <<>> THEN tickers
    ELSE LET d == Head(directives)
             next ==
                 IF d.op # op THEN tickers
                 ELSE IF op = "REPLACE"
                 THEN (IF InListNotTarget(d.old, tickers, target)
                       THEN [tickers EXCEPT ![IndexOf(tickers, d.old)] = d.new]
                       ELSE tickers)
                 ELSE IF op = "ADD"
                 THEN (IF d.new \notin Range(tickers) THEN Append(tickers, d.new)
                       ELSE tickers)
                 ELSE (IF InListNotTarget(d.old, tickers, target)
                       THEN RemoveFirst(tickers, d.old)
                       ELSE tickers)
         IN  ApplyDirectives(op, Tail(directives), next, target)

\* every pass sets "changed" exactly when it alters the list, so the changed
\* list is returned when it was altered and current_tickers otherwise
_parse_ticker_changes(instruction, current_tickers) ==
    IF instruction = <<>> THEN current_tickers
    ELSE LET target == IF current_tickers # <<>> THEN current_tickers[1] ELSE "MS"
             replaced == ApplyDirectives("REPLACE", instruction, current_tickers, target)
             added == ApplyDirectives("ADD", instruction, replaced, target)
         IN  ApplyDirectives("REMOVE", instruction, added, target)

(***************************************************************************)
(* The patterns of _parse_ticker_changes on the upper-cased instruction,   *)
(* read word by word.  [A-Z]{1,5} takes at most the first five letters of  *)
(* a word; where the pattern goes on with \s+ the word must end there.     *)
(***************************************************************************)
\* the words an instruction is made of
Vocabulary == {"REPLACE", "WITH", "ADD", "REMOVE", "MS", "GS", "BLK"}

\* the first five letters of a word
FirstFive(w) ==
    CASE w = "REPLACE" -> "REPLA"
      [] w = "REMOVE" -> "REMOV"
      [] OTHER -> w

\* the matches of (?:REPLACE|SWAP)\s+([A-Z]{1,5})\s+(?:WITH|FOR)\s+([A-Z]{1,5})
\* from word i on, left to right, without overlap
RECURSIVE ReplaceMatches(_, _)
ReplaceMatches(words, i) ==
    IF i > Len(words) THEN <<>>
    ELSE IF /\ words[i] \in {"REPLACE", "SWAP"}
            /\ i + 3 <= Len(words)
            /\ FirstFive(words[i + 1]) = words[i + 1]
            /\ words[i + 2] \in {"WITH", "FOR"}
    THEN <<Replace(words[i + 1], FirstFive(words[i + 3]))>> \o ReplaceMatches(words, i + 4)
    ELSE ReplaceMatches(words, i + 1)

\* the matches of (?:ADD|INCLUDE)\s+([A-Z]{1,5})
RECURSIVE AddMatches(_, _)
AddMatches(words, i) ==
    IF i > Len(words) THEN <<>>
    ELSE IF words[i] \in {"ADD", "INCLUDE"} /\ i + 1 <= Len(words)
    THEN <<Add(FirstFive(words[i + 1]))>> \o AddMatches(words, i + 2)
    ELSE AddMatches(words, i + 1)

\* the matches of (?:REMOVE|DROP|EXCLUDE)\s+([A-Z]{1,5})
RECURSIVE RemoveMatches(_, _)
RemoveMatches(words, i) ==
    IF i > Len(words) THEN <<>>
    ELSE IF words[i] \in {"REMOVE", "DROP", "EXCLUDE"} /\ i + 1 <= Len(words)
    THEN <<Remove(FirstFive(words[i + 1]))>> \o RemoveMatches(words, i + 2)
    ELSE RemoveMatches(words, i + 1)

\* the directives an instruction holds; a non-empty instruction without a
\* match is the TEXT entry
Directives(words) ==
    LET found == ReplaceMatches(words, 1) \o AddMatches(words, 1) \o RemoveMatches(words, 1)
    IN  IF words # <<>> /\ found = <<>> THEN <<Text>> ELSE found

\* whether a pass over the directives of one kind sets "changed"
RECURSIVE SetsChanged(_, _, _, _)
SetsChanged(op, directives, tickers, target) ==
    IF directives = <<>> THEN FALSE
    ELSE LET d == Head(directives)
             applies ==
                 /\ d.op = op
                 /\ IF op = "ADD" THEN d.new \notin Range(tickers)
                    ELSE InListNotTarget(d.old, tickers, target)
         IN  \/ applies
             \/ SetsChanged(op, Tail(directives),
                            ApplyDirectives(op, <<d>>, tickers, target), target)

\* target = tickers[0] if tickers else "MS", taken from the copy of current_tickers
ParseTarget == IF parse_current # <<>> THEN parse_current[1] ELSE "MS"

\* "if not instruction: return current_tickers", else the copy and the flag
ParseStart ==
    /\ parse_pc = "start"
    /\ IF parse_text = <<>>
       THEN /\ parse_result' = parse_current
            /\ parse_pc' = "done"
            /\ UNCHANGED <<parse_tickers, parse_changed>>
       ELSE /\ parse_tickers' = parse_current
            /\ parse_changed' = FALSE
            /\ parse_pc' = "replace"
            /\ UNCHANGED parse_result
    /\ UNCHANGED <<parse_text, parse_current, memo_store, rvars, tvars, fvars, regen>>

\* one for-loop of the function
ParsePass(op, matches, next_pc) ==
    /\ parse_tickers' = ApplyDirectives(op, matches, parse_tickers, ParseTarget)
    /\ parse_changed' = (parse_changed \/ SetsChanged(op, matches, parse_tickers, ParseTarget))
    /\ parse_pc' = next_pc
    /\ UNCHANGED <<parse_text, parse_current, memo_store, rvars, tvars, fvars, regen>>

ReplacePass ==
    /\ parse_pc = "replace"
    /\ ParsePass("REPLACE", ReplaceMatches(parse_text, 1), "add")
    /\ UNCHANGED parse_result

\* a second loop that applies the removals before it adds
AddPassRemovingFirst ==
    /\ parse_pc = "add"
    /\ LET removed == ApplyDirectives("REMOVE", RemoveMatches(parse_text, 1),
                                      parse_tickers, ParseTarget)
       IN  /\ parse_tickers' = ApplyDirectives("ADD", AddMatches(parse_text, 1),
                                               removed, ParseTarget)
           /\ parse_changed' = (parse_changed \/ parse_tickers' # parse_tickers)
    /\ parse_pc' = "remove"
    /\ UNCHANGED <<parse_text, parse_current, parse_result, memo_store, rvars, tvars,
                   fvars, regen>>

AddPass ==
    /\ parse_pc = "add"
    /\ ParsePass("ADD", AddMatches(parse_text, 1), "remove")
    /\ UNCHANGED parse_result

\* the last loop and "return tickers if changed else current_tickers"
RemovePass ==
    /\ parse_pc = "remove"
    /\ ParsePass("REMOVE", RemoveMatches(parse_text, 1), "done")
    /\ parse_result' = IF parse_changed' THEN parse_tickers' ELSE parse_current

(***************************************************************************)
(* SpecP: one call of _parse_ticker_changes for every instruction of up to *)
(* MaxWords words and every list of up to MaxTickers symbols, and for the  *)
(* two calls of the documentation.                                         *)
(***************************************************************************)
ParseSymbols == {"MS", "GS", "BLK"}

ReplaceAndAdd == <<"REPLACE", "GS", "WITH", "BLK", "AND", "ADD", "HOOD">>

RemoveSubject == <<"REMOVE", "MS">>

\* two replacements of which the second undoes the first
ReplaceTwice == <<"REPLACE", "GS", "WITH", "BLK", "REPLACE", "BLK", "WITH", "GS">>

ParseInputs ==
    (SeqsUpTo(Vocabulary, MaxWords) \X SeqsUpTo(ParseSymbols, MaxTickers))
    \cup {<<ReplaceAndAdd, <<"MS", "GS", "JPM">> >>, <<RemoveSubject, <<"MS", "GS">> >>,
          <<ReplaceTwice, <<"MS", "GS">> >>}

PInit ==
    /\ parse_pc = "start"
    /\ \E input \in ParseInputs : parse_text = input[1] /\ parse_current = input[2]
    /\ parse_tickers = <<>> /\ parse_changed = FALSE /\ parse_result = <<>>
    /\ TIdle /\ RIdle /\ GIdle /\ FIdle

PNext == ParseStart \/ ReplacePass \/ AddPass \/ RemovePass

SpecP == PInit /\ [][PNext]_vars

\* the confidence rules of the re-search branches
RegenBioConfidence(n_domains) ==
    IF n_domains >= 3 THEN _confidence("high", <<"sources found", Str(n_domains)>>)
    ELSE IF n_domains >= 1 THEN _confidence("medium", <<"Only sources found", Str(n_domains)>>)
    ELSE _confidence("low", <<"No web sources found", "">>)

RegenForecastConfidence(is_stale, date_updated) ==
    IF is_stale THEN _confidence("medium", <<"Data is older than 30 days", date_updated>>)
    ELSE _confidence("high", <<"Data current", "">>)

RegenEarningsConfidence == _confidence("medium", <<"Regenerated section", "">>)

RegenPeerConfidence(n_domains) ==
    IF n_domains >= 2 THEN _confidence("high", <<"Commentary from sources", Str(n_domains)>>)
    ELSE IF n_domains >= 1 THEN _confidence("medium", <<"Limited sources", "">>)
    ELSE _confidence("low", <<"No peer commentary found", "">>)

RegenValuationConfidence(n_failures, n_tickers) ==
    IF n_failures = 0 THEN _confidence("high", <<"All tickers retrieved", Str(n_tickers)>>)
    ELSE _confidence("medium", <<"tickers failed", Str(n_failures)>>)

\* the regeneration events
RegenEvent(event, section, data) == _sse_event(event, section, "", data)

\* a progress report sent on the payload channel of narrative sections
RegenStepAsSection(section, step) == _sse_event("regen_section", section, step, <<>>)

RegenStep(section, step) == _sse_event("regen_step", section, step, <<>>)

\* an error event that says nothing about what went wrong
RegenErrorWithoutMessage(section, message) == _sse_event("regen_error", section, "", <<>>)

RegenError(section, message) == _sse_event("regen_error", section, "", <<message>>)

\* an error branch without its "return": the stream runs on to regen_complete
ReturnThroughComplete(r, evs, leaf_calls) ==
    [NoRegen EXCEPT !.rpc = "done", !.section = r.section,
                    !.revents = r.revents \o evs \o
                        (IF Last(evs).event = "regen_error"
                         THEN <<RegenEvent("regen_complete", Last(evs).key, <<>>)>> ELSE <<>>),
                    !.rcalls = r.rcalls \o leaf_calls]

\* the generator yields its last events and returns: its locals are gone,
\* the slot keeps the section key its request named
Return(r, evs, leaf_calls) ==
    [NoRegen EXCEPT !.rpc = "done", !.section = r.section,
                    !.revents = r.revents \o evs,
                    !.rcalls = r.rcalls \o leaf_calls]

\* the generator yields and suspends at its next await
Await(r, next_call, evs, leaf_calls) ==
    [r EXCEPT !.rpc = next_call, !.revents = @ \o evs, !.rcalls = @ \o leaf_calls]

\* a store that updates the old record with the fields of the new one
StoreSectionMerging(store, memo_id, key, rec) ==
    StoreMemo(store, memo_id,
              PutSection(store[memo_id], key,
                         IF key \in DOMAIN store[memo_id].sections
                         THEN rec @@ store[memo_id].sections[key] ELSE rec))

\* a store that drops the verdict of the report whose section it writes
StoreSectionDroppingVerdict(store, memo_id, key, rec) ==
    StoreMemo(store, memo_id,
              [f \in DOMAIN store[memo_id] \ {"quality_check"} |->
                  PutSection(store[memo_id], key, rec)[f]])

\* a store that keeps the confidence of the record it replaces
StoreSectionKeepingConfidence(store, memo_id, key, rec) ==
    StoreMemo(store, memo_id,
              PutSection(store[memo_id], key,
                         IF key \in DOMAIN store[memo_id].sections
                            /\ "confidence" \in DOMAIN store[memo_id].sections[key]
                         THEN [rec EXCEPT !.confidence =
                                              store[memo_id].sections[key].confidence]
                         ELSE rec))

\* a store that replaces the section map by the one record it writes
StoreSectionAlone(store, memo_id, key, rec) ==
    StoreMemo(store, memo_id, [store[memo_id] EXCEPT !.sections = (key :> rec)])

\* memo["sections"][key] = rec on the report the request names
StoreSection(store, memo_id, key, rec) ==
    StoreMemo(store, memo_id, PutSection(store[memo_id], key, rec))

\* list(existing_section["tickers"].keys()) if there are tickers, else ALL_TICKERS
ExistingTickers(existing_section) ==
    IF Get(existing_section, "tickers", <<>>) # <<>>
    THEN DictKeys(existing_section.tickers) ELSE ALL_TICKERS

NarrativeSections == {"bio", "earnings", "peer"}

\* a comparison that looks at the symbols only, not at their order
TickersChangedAsSets(new_tickers, existing_tickers) ==
    Range(new_tickers) # Range(existing_tickers)

\* new_tickers != existing_tickers, a comparison of two lists
TickersChanged(new_tickers, existing_tickers) == new_tickers # existing_tickers

\* a draft-only branch that reads the forecast sheet again before it edits
DraftOnlyEntryReReading(r) ==
    Await(r, "read_forecast_data",
          <<RegenStep(r.section, "Re-reading forecast from Excel")>>, <<>>)

\* the draft-only branch from regen_start to its first await, to the write of
\* an uninstructed forecast, or to its return
DraftOnlyEntry(r) ==
    IF r.section \in NarrativeSections
    THEN LET content_to_edit == IF r.current_content # "" THEN r.current_content
                                ELSE Get(r.existing_section, "content", "")
         IN  IF content_to_edit = ""
             THEN Return(r, <<RegenError(r.section, "No existing content to edit")>>, <<>>)
             ELSE Await([r EXCEPT !.content_to_edit = content_to_edit], "edit_section",
                        <<RegenStep(r.section, "Applying changes with Claude")>>, <<>>)
    ELSE IF r.section = "forecast"
    THEN IF Get(r.existing_section, "table_rows", <<>>) = <<>>
         THEN Return(r, <<RegenError(r.section, "No existing forecast data to edit")>>, <<>>)
         ELSE IF r.instruction # <<>>
         THEN Await(r, "edit_forecast_table",
                    <<RegenStep(r.section, "Applying changes to forecast table")>>, <<>>)
         ELSE Await(r, "store_forecast", <<>>, <<>>)
    ELSE IF r.section = "valuation"
    THEN LET existing_tickers == ExistingTickers(r.existing_section)
             new_tickers == _parse_ticker_changes(r.instruction, existing_tickers)
         IN  IF TickersChanged(new_tickers, existing_tickers)
             THEN Await([r EXCEPT !.new_tickers = new_tickers], "get_valuation_data",
                        <<RegenStep(r.section, "Pulling data for updated tickers")>>, <<>>)
             ELSE IF Get(r.existing_section, "tickers", <<>>) # <<>>
             THEN Return(r, <<RegenEvent("regen_valuation", r.section, r.existing_section),
                              RegenEvent("regen_complete", r.section, <<>>)>>, <<>>)
             ELSE Return(r, <<RegenError(r.section, "No existing valuation data")>>, <<>>)
    ELSE Return(r, <<RegenError(r.section, "Unknown section")>>, <<>>)

\* the re-search branch from regen_start to its first await or its return
ReSearchEntry(r) ==
    CASE r.section = "bio" ->
            Await(r, "search_analyst_bio",
                  <<RegenStep(r.section, "Searching for analyst background")>>, <<>>)
      [] r.section = "forecast" ->
            Await(r, "read_forecast_data",
                  <<RegenStep(r.section, "Re-reading forecast from Excel")>>, <<>>)
      [] r.section = "earnings" ->
            Await(r, "get_transcript",
                  <<RegenStep(r.section, "Re-fetching earnings transcript")>>, <<>>)
      [] r.section = "peer" ->
            Await(r, "search_peer_research",
                  <<RegenStep(r.section, "Searching for peer commentary")>>, <<>>)
      [] r.section = "valuation" ->
            Await([r EXCEPT !.new_tickers =
                       _parse_ticker_changes(r.instruction,
                                             ExistingTickers(r.existing_section))],
                  "get_valuation_data",
                  <<RegenStep(r.section, "Pulling fresh valuation data")>>, <<>>)
      [] OTHER -> Return(r, <<RegenError(r.section, "Unknown section")>>, <<>>)

\* the bodies of POST /api/regenerate the model sends
Instructions ==
    {<<>>, <<Text>>, <<Replace("SCHW", "JPM")>>, <<Add("BLK"), Remove("GS")>>,
     <<Replace("GS", "BLK"), Add("GS"), Remove("BLK")>>}

RegenerateRequests ==
    [section : RequestKeys, analyst : {KnownAnalyst}, instruction : Instructions,
     re_search : BOOLEAN, memo_id : MemoIds \cup {""},
     current_content : {"", "client draft"}]

\* regenerate_section: the request starts run_regeneration, which looks the
\* report up, takes the stored record of the section and yields regen_start
regenerate_section(p, req) ==
    /\ regen[p].rpc = "idle"
    /\ \A q \in Slots : q < p => regen[q].rpc # "idle"
    /\ regen' = [regen EXCEPT ![p] =
          IF req.memo_id \notin DOMAIN memo_store
          THEN Return([NoRegen EXCEPT !.section = req.section],
                      <<RegenError(req.section, "Memo not found")>>, <<>>)
          ELSE LET stored == memo_store[req.memo_id]
                   r == [NoRegen EXCEPT
                            !.rpc = "start", !.section = req.section,
                            !.analyst_name = req.analyst,
                            !.instruction = req.instruction,
                            !.re_search = req.re_search, !.memo_id = req.memo_id,
                            !.current_content = req.current_content,
                            !.firm = Get(stored, "firm", ""),
                            !.existing_section = Get(stored.sections, req.section, <<>>),
                            !.revents = <<RegenEvent("regen_start", req.section, <<>>)>>]
               IN  IF req.re_search THEN ReSearchEntry(r) ELSE DraftOnlyEntry(r)]
    /\ UNCHANGED <<memo_store, rvars, tvars, fvars, pvars>>

\* run_regeneration's except branch: the fault ends the stream as a regen_error
RegenCrash(r, leaf_calls) ==
    Return(r, <<RegenError(r.section, "exception")>>, leaf_calls)

\* a stream that reports an error although the record was written
RegenCompleteAsError(section) == RegenEvent("regen_error", section, <<"failed">>)

RegenComplete(section) == RegenEvent("regen_complete", section, <<>>)

\* a confidence that is set afresh instead of being carried over
ExistingConfidenceReset(existing_section, default) == default

\* existing_section.get("confidence", default)
ExistingConfidence(existing_section, default) ==
    Get(existing_section, "confidence", default)

\* draft-only, narrative section: the edit returns, the record is stored
EditSection(p) ==
    /\ regen[p].rpc = "edit_section"
    /\ \E a \in EditAnswers :
          LET r == regen[p]
              edited == edit_section(r.section, r.content_to_edit, a)
              sources == Get(r.existing_section, "sources", <<>>)
              confidence == ExistingConfidence(r.existing_section,
                                _confidence("medium", <<"Edited section", "">>))
              rec == WithProvenance(edited, sources, confidence)
          IN  /\ memo_store' = StoreSection(memo_store, r.memo_id, r.section, rec)
              /\ regen' = [regen EXCEPT ![p] =
                    Return(r, <<RegenEvent("regen_section", r.section,
                                           [content |-> rec.content, sources |-> sources,
                                            confidence |-> confidence]),
                                RegenComplete(r.section)>>,
                           <<<<"edit_section", a>>>>)]
    /\ UNCHANGED <<rvars, tvars, fvars, pvars>>

\* draft-only, forecast: the edited record gets the sources and the confidence of the
\* existing record and is stored
StoreEditedForecast(p, edited, leaf_calls) ==
    LET r == regen[p]
        sources == Get(r.existing_section, "sources", <<>>)
        confidence == ExistingConfidence(r.existing_section,
                          _confidence("medium", <<"Edited forecast", "">>))
        rec == WithProvenance(edited, sources, confidence)
    IN  /\ memo_store' = StoreSection(memo_store, r.memo_id, "forecast", rec)
        /\ regen' = [regen EXCEPT ![p] =
              Return(r, <<RegenEvent("regen_forecast", r.section, rec),
                          RegenComplete(r.section)>>, leaf_calls)]

\* draft-only, forecast with an instruction: the table edit returns
EditForecastTable(p) ==
    /\ regen[p].rpc = "edit_forecast_table"
    /\ \E a \in TableAnswers :
          LET existing_section == regen[p].existing_section
              modified_rows == edit_forecast_table(existing_section.table_rows, a)
              edited == IF modified_rows # <<>>
                        THEN [existing_section EXCEPT !.table_rows = modified_rows]
                        ELSE existing_section
          IN  StoreEditedForecast(p, edited, <<<<"edit_forecast_table", a>>>>)
    /\ UNCHANGED <<rvars, tvars, fvars, pvars>>

\* draft-only, forecast without an instruction: the existing record is stored
StoreForecast(p) ==
    /\ regen[p].rpc = "store_forecast"
    /\ StoreEditedForecast(p, regen[p].existing_section, <<>>)
    /\ UNCHANGED <<rvars, tvars, fvars, pvars>>

\* the quotes for new_tickers arrive: on success the record built from them
\* is stored, else the stream ends with regen_error
ValuationPulled(p) ==
    /\ regen[p].rpc = "get_valuation_data"
    /\ \E a \in ValuationAnswers :
          LET r == regen[p]
              res == _run_step(a.raise, get_valuation_data(r.new_tickers, a.failed))
              leaf_calls == <<<<"get_valuation_data",
                               IF a.raise THEN "raise"
                               ELSE IF a.failed = {} THEN "all_quotes" ELSE "some_quotes">>>>
          IN  IF Escapes(res)
              THEN /\ regen' = [regen EXCEPT ![p] = RegenCrash(r, leaf_calls)]
                   /\ UNCHANGED memo_store
              ELSE IF Get(res, "status", "") = "success"
              THEN LET target == r.new_tickers[1]
                       rec == [ticker_order |-> r.new_tickers] @@
                              WithProvenance(res,
                                  ValuationSources(res.tickers, target, res.as_of),
                                  RegenValuationConfidence(Failures(res.tickers),
                                                           Len(res.tickers)))
                   IN  /\ memo_store' = StoreSection(memo_store, r.memo_id, "valuation", rec)
                       /\ regen' = [regen EXCEPT ![p] =
                             Return(r, <<RegenEvent("regen_valuation", r.section, rec),
                                         RegenComplete(r.section)>>, leaf_calls)]
              ELSE /\ regen' = [regen EXCEPT ![p] =
                         Return(r, <<RegenError(r.section, "Failed to pull valuation data")>>,
                                leaf_calls)]
                   /\ UNCHANGED memo_store
    /\ UNCHANGED <<rvars, tvars, fvars, pvars>>

\* draft-only, valuation with changed tickers
DraftValuationPull(p) == ~regen[p].re_search /\ ValuationPulled(p)

\* re-search, valuation
ReSearchValuation(p) == regen[p].re_search /\ ValuationPulled(p)

\* re-search, bio: the search returns
ReBioSearch(p) ==
    /\ regen[p].rpc = "search_analyst_bio"
    /\ \E a \in BioSearchAnswers :
          LET r == regen[p]
              res == _run_step(a = "raise", search_analyst_bio(r.analyst_name, r.firm, a))
              leaf_calls == <<<<"search_analyst_bio", a>>>>
          IN  regen' = [regen EXCEPT ![p] =
                  IF Escapes(res) THEN RegenCrash(r, leaf_calls)
                  ELSE Await([r EXCEPT !.result = res], "generate_section",
                             <<RegenStep(r.section, "Drafting bio section with Claude")>>,
                             leaf_calls)]
    /\ UNCHANGED <<memo_store, rvars, tvars, fvars, pvars>>

\* re-search, bio: the draft returns, the record is stored
ReBioDraft(p) ==
    /\ regen[p].rpc = "generate_section" /\ regen[p].section = "bio"
    /\ \E a \in GenAnswers :
          LET r == regen[p]
              search_results == Get(r.result, "search_results", <<>>)
              bio_section == generate_section("bio", a)
              bio_sources == _top_sources(search_results, 5)
              bio_confidence == RegenBioConfidence(Len(bio_sources))
              rec == WithProvenance(bio_section, bio_sources, bio_confidence)
          IN  /\ memo_store' = StoreSection(memo_store, r.memo_id, "bio", rec)
              /\ regen' = [regen EXCEPT ![p] =
                    Return(r, <<RegenEvent("regen_section", "bio",
                                           [content |-> rec.content, sources |-> bio_sources,
                                            confidence |-> bio_confidence]),
                                RegenComplete(r.section)>>,
                           <<<<"generate_section", a>>>>)]
    /\ UNCHANGED <<rvars, tvars, fvars, pvars>>

\* re-search, forecast: the record read from the sheet gets its sources and
\* its confidence and is stored
StoreReadForecast(p, res, leaf_calls) ==
    LET r == regen[p]
        date_updated == Get(res, "date_updated", "N/A")
        is_stale == Get(res, "is_stale", FALSE)
        rec == WithProvenance(res, ForecastSources(r.analyst_name, r.firm, date_updated),
                              RegenForecastConfidence(is_stale, date_updated))
    IN  /\ memo_store' = StoreSection(memo_store, r.memo_id, "forecast", rec)
        /\ regen' = [regen EXCEPT ![p] =
              Return(r, <<RegenEvent("regen_forecast", r.section, rec),
                          RegenComplete(r.section)>>, leaf_calls)]

\* re-search, forecast: the read returns
ReForecastRead(p) ==
    /\ regen[p].rpc = "read_forecast_data"
    /\ \E a \in ForecastAnswers :
          LET r == regen[p]
              res == _run_step(a = "raise", read_forecast_data(r.analyst_name, a))
              leaf_calls == <<<<"read_forecast_data", a>>>>
          IN  IF Escapes(res)
              THEN /\ regen' = [regen EXCEPT ![p] = RegenCrash(r, leaf_calls)]
                   /\ UNCHANGED memo_store
              ELSE IF Get(res, "status", "") # "success"
              THEN /\ regen' = [regen EXCEPT ![p] =
                         Return(r, <<RegenError(r.section, "Failed to read forecast data")>>,
                                leaf_calls)]
                   /\ UNCHANGED memo_store
              ELSE IF r.instruction # <<>>
              THEN /\ regen' = [regen EXCEPT ![p] =
                         Await([r EXCEPT !.result = res], "edit_read_forecast",
                               <<RegenStep(r.section, "Applying changes to forecast table")>>,
                               leaf_calls)]
                   /\ UNCHANGED memo_store
              ELSE StoreReadForecast(p, res, leaf_calls)
    /\ UNCHANGED <<rvars, tvars, fvars, pvars>>

\* re-search, forecast with an instruction: the table edit returns
ReForecastEdit(p) ==
    /\ regen[p].rpc = "edit_read_forecast"
    /\ \E a \in TableAnswers :
          LET res == regen[p].result
              modified_rows == edit_forecast_table(Get(res, "table_rows", <<>>), a)
          IN  StoreReadForecast(p,
                  IF modified_rows # <<>> THEN [res EXCEPT !.table_rows = modified_rows]
                  ELSE res,
                  <<<<"edit_forecast_table", a>>>>)
    /\ UNCHANGED <<rvars, tvars, fvars, pvars>>

\* re-search, earnings: get_transcript("MS", "Morgan Stanley") returns
ReTranscript(p) ==
    /\ regen[p].rpc = "get_transcript"
    /\ \E a \in RunTierAnswers :
          LET r == regen[p]
              res == _run_step(FALSE, get_transcript("MS", a))
              leaf_calls == <<<<"get_transcript", res.status>>>>
          IN  regen' = [regen EXCEPT ![p] =
                  IF Escapes(res) THEN RegenCrash(r, leaf_calls)
                  ELSE Await([r EXCEPT !.result = res], "generate_section",
                             <<RegenStep(r.section, "Drafting post-earnings feedback")>>,
                             leaf_calls)]
    /\ UNCHANGED <<memo_store, rvars, tvars, fvars, pvars>>

\* "[not available" in transcript_text: neither a tier's payload nor the
\* placeholder of the re-search branch holds that marker
HasNotAvailableMarker(text) == text \in {"[not available]"}

\* re-search, earnings: the draft returns, the record is stored
ReEarningsDraft(p) ==
    /\ regen[p].rpc = "generate_section" /\ regen[p].section = "earnings"
    /\ \E a \in GenAnswers :
          LET r == regen[p]
              fetched == Get(r.result, "transcript_text", "")
              transcript_text == IF fetched = "" THEN UnavailableText ELSE fetched
              source == Get(r.result, "source", "N/A")
              earnings_section == generate_section("earnings", a)
              transcript_sources ==
                  IF transcript_text # "" /\ ~HasNotAvailableMarker(transcript_text)
                  THEN <<[domain |-> source, url |-> Get(r.result, "source_url", ""),
                          label |-> <<"Transcript from", source>>]>>
                  ELSE <<>>
              rec == WithProvenance(earnings_section, transcript_sources,
                                    RegenEarningsConfidence)
          IN  /\ memo_store' = StoreSection(memo_store, r.memo_id, "earnings", rec)
              /\ regen' = [regen EXCEPT ![p] =
                    Return(r, <<RegenEvent("regen_section", "earnings",
                                           [content |-> rec.content,
                                            sources |-> transcript_sources,
                                            confidence |-> RegenEarningsConfidence]),
                                RegenComplete(r.section)>>,
                           <<<<"generate_section", a>>>>)]
    /\ UNCHANGED <<rvars, tvars, fvars, pvars>>

\* re-search, peer: the search returns
RePeerSearch(p) ==
    /\ regen[p].rpc = "search_peer_research"
    /\ \E a \in PeerSearchAnswers :
          LET r == regen[p]
              res == _run_step(a = "raise",
                               search_peer_research(r.analyst_name, PEER_TICKERS, a))
              leaf_calls == <<<<"search_peer_research", a>>>>
          IN  regen' = [regen EXCEPT ![p] =
                  IF Escapes(res) THEN RegenCrash(r, leaf_calls)
                  ELSE Await([r EXCEPT !.result = res], "generate_section",
                             <<RegenStep(r.section, "Drafting peer research summary")>>,
                             leaf_calls)]
    /\ UNCHANGED <<memo_store, rvars, tvars, fvars, pvars>>

\* re-search, peer: the draft returns, the record is stored
RePeerDraft(p) ==
    /\ regen[p].rpc = "generate_section" /\ regen[p].section = "peer"
    /\ \E a \in GenAnswers :
          LET r == regen[p]
              peer_section == generate_section("peer", a)
              peer_sources == _top_sources(AllPeerHits(r.result), 5)
              peer_confidence == RegenPeerConfidence(Len(peer_sources))
              rec == WithProvenance(peer_section, peer_sources, peer_confidence)
          IN  /\ memo_store' = StoreSection(memo_store, r.memo_id, "peer", rec)
              /\ regen' = [regen EXCEPT ![p] =
                    Return(r, <<RegenEvent("regen_section", "peer",
                                           [content |-> rec.content, sources |-> peer_sources,
                                            confidence |-> peer_confidence]),
                                RegenComplete(r.section)>>,
                           <<<<"generate_section", a>>>>)]
    /\ UNCHANGED <<rvars, tvars, fvars, pvars>>

\* the steps of the regeneration in slot p
RegenStepOf(p) ==
    \/ EditSection(p) \/ EditForecastTable(p) \/ StoreForecast(p)
    \/ DraftValuationPull(p)
    \/ ReBioSearch(p) \/ ReBioDraft(p)
    \/ ReForecastRead(p) \/ ReForecastEdit(p)
    \/ ReTranscript(p) \/ ReEarningsDraft(p)
    \/ RePeerSearch(p) \/ RePeerDraft(p)
    \/ ReSearchValuation(p)

\* the event stream of the run is closed and the generator's frame released
RunClosed ==
    /\ pc = "done"
    /\ pc' = "closed"
    /\ analyst_name' = "" /\ company' = "" /\ selected' = <<>> /\ firm' = ""
    /\ memo' = NoMemo /\ result' = NoResult /\ events' = <<>> /\ calls' = <<>>
    /\ UNCHANGED <<memo_store, tvars, fvars, pvars, regen>>

(***************************************************************************)
(* Spec: one run for a known analyst, then regenerations of its report.    *)
(* The client learns the session id from "complete", the last event of the *)
(* run, so its regenerations come once the run's stream is closed; the     *)
(* selections name known sections in the order of the chain (SpecRun       *)
(* covers every selection).                                                *)
(***************************************************************************)
ChainPos(key) == CHOOSE i \in 1..Len(ChainOrder) : ChainOrder[i] = key

ChainSelections ==
    {s \in SeqsUpTo(Range(SECTION_IDS), MaxSel) :
        \A i, j \in 1..Len(s) : i < j => ChainPos(s[i]) < ChainPos(s[j])}

Init == RunInit

Next ==
    \/ \E s \in ChainSelections : generate_memo(KnownAnalyst, DEFAULT_TICKER, s)
    \/ RunStep
    \/ RunClosed
    \/ pc \in {"idle", "closed"} /\
          \E p \in Slots, req \in RegenerateRequests : regenerate_section(p, req)
    \/ \E p \in Slots : RegenStepOf(p)

Spec == Init /\ [][Next]_vars

(***************************************************************************)
(* Claims about one run of the orchestration engine (SpecRun).             *)
(***************************************************************************)
Terminals == {i \in 1..Len(events) : events[i].event \in {"complete", "server_error"}}

StepUpdates == {i \in 1..Len(events) : events[i].event = "step_update"}

RunActive == pc \notin {"idle", "done"}

\* the leaf calls at which a run can stand: each has a step to take
LeafCalls == {"bio_search", "bio_draft", "forecast_read", "transcript_fetch",
              "earnings_draft", "peer_search", "peer_draft", "market_data",
              "quality_check"}

\* C1: the event stream of a run ends with exactly one terminal event, a
\* "complete" carrying the session id of the stored report or a
\* "server_error" carrying a message; no event follows it, and a run that
\* has not ended can always take its next step.
C1_OneTerminalEventLast ==
    /\ Cardinality(Terminals) <= 1
    /\ \A i \in Terminals : i = Len(events)
    /\ RunActive => Terminals = {} /\ pc \in LeafCalls
    /\ pc = "done" =>
          /\ Cardinality(Terminals) = 1
          /\ Last(events).event = "complete" => Last(events).key \in DOMAIN memo_store
          /\ Last(events).event = "server_error" => Last(events).data # <<>>
          /\ ~ENABLED RunNext

C1_Witness ==
    /\ pc = "done" /\ Len(events) > 3
    /\ Last(events).event = "server_error"
    /\ \E i \in StepUpdates : events[i].status = "error"

\* every step of the hierarchy, in the order of the hierarchy
AllSteps == Concat([i \in 1..(Len(ChainOrder) + 1) |->
                       StepChildren((ChainOrder \o <<"qc">>)[i])])

StepPos == [step \in Range(AllSteps) |-> CHOOSE i \in 1..Len(AllSteps) : AllSteps[i] = step]

\* the steps announced by the "steps" event
Announced ==
    IF events # <<>> /\ events[1].event = "steps"
    THEN Range(Concat([i \in 1..Len(events[1].data) |-> events[1].data[i].children]))
    ELSE {}

\* C2: in the event stream of a run the step_updates follow the fixed order
\* of the step hierarchy whatever the order of the selected keys, and for
\* each step the "running" update precedes the "complete" or "error" one.
C2_StepsInCanonicalOrder ==
    /\ \A i, j \in StepUpdates :
          i < j => StepPos[events[i].key] <= StepPos[events[j].key]
    /\ \A i, j \in StepUpdates :
          (/\ events[i].key = events[j].key
           /\ events[i].status = "running"
           /\ events[j].status \in {"complete", "error"}) => i < j
    /\ \A i \in StepUpdates :
          /\ events[i].key \in Announced
          /\ events[i].status \in {"running", "complete", "error"}
    /\ \A i, j \in StepUpdates :
          (events[i].key = events[j].key /\ events[i].status = events[j].status) => i = j

C2_Witness ==
    /\ pc = "done" /\ Last(events).event = "complete"
    /\ selected = <<"valuation", "bio">>
    /\ \E i, j \in StepUpdates :
          /\ i < j
          /\ events[i].key = "bio_draft" /\ events[i].status = "complete"
          /\ events[j].key = "market_data" /\ events[j].status = "running"

\* the faults of the engine itself: the analyst table cannot be read, the
\* analyst name has no word to search the local transcript for, the quality
\* check answers JSON that is not an object
EngineFault ==
    \/ Len(events) = 1
    \/ /\ events[Len(events) - 1] = StepUpdate("transcript_fetch", "running")
       /\ NoWords(analyst_name) /\ Get(result, "tier", 0) = 5
    \/ /\ events[Len(events) - 1].event = "quality_check"
       /\ ~IsDict(events[Len(events) - 1].data)

\* the sections of the selection that the engine knows
KnownSelected == Range(selected) \cap Range(SECTION_IDS)

\* C5: a leaf that fails does not halt the run: the stream ends in
\* "server_error" only on a fault of the engine itself, and a run that ends
\* in "complete" has called the acquisition leaf of every selected section
\* and the quality check, whichever leaves failed before.
C5_LeafFailureDoesNotHaltRun ==
    /\ RunActive => pc \in LeafCalls
    /\ pc = "done" =>
          /\ Last(events).event = "server_error" => EngineFault
          /\ Last(events).event = "complete" =>
                /\ \A k \in KnownSelected :
                      /\ \E i \in StepUpdates :
                            /\ events[i].key = FirstCall(k)
                            /\ events[i].status \in {"complete", "error"}
                      /\ k \in DOMAIN memo.sections
                /\ Call("run_quality_check", "qc", "") \in Range(calls)
                /\ \E i \in StepUpdates :
                      events[i] = StepUpdate("quality_check", "complete")

C5_Witness ==
    /\ pc = "done" /\ Last(events).event = "complete"
    /\ selected = <<"bio", "valuation">>
    /\ \E i, j \in StepUpdates :
          /\ i < j
          /\ events[i] = StepUpdate("bio_search", "error")
          /\ events[j] = StepUpdate("market_data", "complete")
    /\ memo.sections["bio"].status = "error"

\* C6 as stated: the sections of the stored report are exactly the keys of
\* the selection passed to the run.
C6_StoredKeysEqualSelection ==
    (pc = "done" /\ Last(events).event = "complete") =>
        DOMAIN memo_store[Last(events).key].sections = Range(selected)

\* C6 (amended): the sections of the stored report are exactly the selected
\* keys that are section identifiers, a key that is none of the five being
\* ignored; the stored report carries the quality-check result.
C6_StoredKeysEqualKnownSelection ==
    (pc = "done" /\ Last(events).event = "complete") =>
        /\ Last(events).key \in DOMAIN memo_store
        /\ DOMAIN memo_store[Last(events).key].sections = KnownSelected
        /\ "quality_check" \in DOMAIN memo_store[Last(events).key]
        /\ \E a \in QcAnswers :
              memo_store[Last(events).key].quality_check = run_quality_check(a)

C6_Witness ==
    /\ pc = "done" /\ Last(events).event = "complete"
    /\ selected = <<"forecast", "other">>
    /\ DOMAIN memo_store["m1"].sections = {"forecast"}
    /\ "error" \in DOMAIN memo_store["m1"].sections["forecast"]


\* the events of a kind in a stream
EventsOf(evs, kind) == {i \in 1..Len(evs) : evs[i].event = kind}

\* the run ends in this step
RunEnds == pc \notin {"idle", "done"} /\ pc' = "done"

\* C15: when an exception escapes the orchestration loop (the name of the
\* analyst has no word to look for in the local transcript, the quality
\* check answers JSON that is no object, or the run ends in server_error
\* for any other reason), the stream holds exactly one server_error, as its
\* last event, and no complete, and the report store is what it was before
\* the run: no step of a run but the one that yields complete changes the
\* store, and the report under construction, partial or whole, is not in it.
C15_FaultLeavesStoreUntouched ==
    [][/\ (pc = "transcript_fetch" /\ NoWords(analyst_name) /\ Get(result', "tier", 0) = 5) =>
             pc' = "done" /\ Last(events').event = "server_error"
       /\ (pc = "quality_check" /\ ~IsDict(memo'.quality_check)) =>
             pc' = "done" /\ Last(events').event = "server_error"
       /\ (pc' = "done" /\ Last(events').event = "server_error") =>
             /\ EventsOf(events', "server_error") = {Len(events')}
             /\ EventsOf(events', "complete") = {}
             /\ memo_store' = memo_store
             /\ memo_store' = <<>>
       /\ memo_store' # memo_store =>
             RunEnds /\ Last(events').event = "complete"]_vars

C15_Witness ==
    /\ pc = "done" /\ Last(events).event = "server_error"
    /\ DOMAIN memo.sections = {"bio", "forecast"}
    /\ "quality_check" \in DOMAIN memo
    /\ memo_store = <<>>


\* the place of a section identifier in SECTION_IDS
SectionPos(id) == CHOOSE i \in 1..Len(SECTION_IDS) : SECTION_IDS[i] = id

\* the tree the "steps" event of the run carries
StepTree == events[1].data

\* C16: for every selection the step hierarchy holds exactly one parent
\* node for each selected key that is a section identifier, in the order of
\* SECTION_IDS (bio, forecast, earnings, peer, valuation) whatever the order
\* of the selection and however often a key is repeated, each node with the
\* fixed children of its section, then the quality-check node, which is
\* the last node of every tree, that of the empty selection included; a
\* selected key that is no section identifier has no node, so the tree is
\* a function of the set of selected section identifiers.
C16_StepTreeOfSelection ==
    (events # <<>> /\ events[1].event = "steps") =>
        LET n == Len(StepTree)
        IN  /\ n = Cardinality(KnownSelected) + 1
            /\ StepTree[n] = [id |-> "qc", children |-> <<"quality_check">>]
            /\ \A k \in KnownSelected :
                  Cardinality({i \in 1..n : StepTree[i].id = k}) = 1
            /\ \A i \in 1..(n - 1) : StepTree[i].id \in KnownSelected
            /\ \A i, j \in 1..(n - 1) :
                  i < j => SectionPos(StepTree[i].id) < SectionPos(StepTree[j].id)
            /\ \A i \in 1..n :
                  /\ StepTree[i].children = StepChildren(StepTree[i].id)
                  /\ StepTree[i].children # <<>>
            /\ \A i, j \in 1..n :
                  i # j => Range(StepTree[i].children) \cap Range(StepTree[j].children) = {}

C16_Witness ==
    /\ Len(events) = 1 /\ events[1].event = "steps"
    /\ selected = <<"valuation", "bio">>
    /\ StepTree = <<StepNode("bio"), StepNode("valuation"), StepNode("qc")>>


\* the acquisition and drafting leaves of a section
LeavesOf(id) ==
    CASE id = "bio" -> {"search_analyst_bio", "generate_section"}
      [] id = "forecast" -> {"read_forecast_data"}
      [] id = "earnings" -> {"get_transcript", "generate_section"}
      [] id = "peer" -> {"search_peer_research", "generate_section"}
      [] id = "valuation" -> {"get_valuation_data"}

\* the events that carry the record of a section
SectionEvents == {i \in 1..Len(events) : events[i].event \in {"section", "forecast", "valuation"}}

\* C17: in a run whose selection names exactly one section key, every
\* step_update is for a sub-step of that section or for the quality-check
\* sub-step, the tree announces that section and the quality check only,
\* every leaf called is an acquisition or drafting leaf of that section,
\* called for that section, or the quality check, and no record of another
\* section is sent or put into the report.
C17_OnlySelectedSectionRuns ==
    \A k \in Range(SECTION_IDS) :
        (Range(selected) = {k} /\ events # <<>> /\ events[1].event = "steps") =>
            /\ \A i \in StepUpdates :
                  events[i].key \in Range(StepChildren(k)) \cup {"quality_check"}
            /\ Announced = Range(StepChildren(k)) \cup {"quality_check"}
            /\ \A i \in 1..Len(calls) :
                  \/ calls[i] = Call("run_quality_check", "qc", "")
                  \/ calls[i][1] \in LeavesOf(k) /\ calls[i][2] = k
            /\ \A i \in SectionEvents : events[i].key = k
            /\ DOMAIN memo.sections \subseteq {k}
            /\ (pc = "done" /\ Last(events).event = "complete") =>
                  /\ {calls[i][1] : i \in 1..Len(calls)} = LeavesOf(k) \cup {"run_quality_check"}
                  /\ DOMAIN memo.sections = {k}

C17_Witness ==
    /\ pc = "done" /\ Last(events).event = "complete"
    /\ selected = <<"earnings">>
    /\ Len(calls) = 3
    /\ calls[1] = Call("get_transcript", "earnings", "")
    /\ calls[2][1] = "generate_section" /\ calls[2][2] = "earnings"
    /\ calls[3] = Call("run_quality_check", "qc", "")


\* the transcript step of the run ends with every tier exhausted
TiersExhausted == pc = "transcript_fetch" /\ result' = TranscriptUnavailable

\* the earnings draft is made after every tier was exhausted
DraftsWithoutTranscript == pc = "earnings_draft" /\ result = TranscriptUnavailable

\* the record a run without a transcript makes of the earnings section
IsUnavailableRecord(rec) ==
    /\ rec.section = "earnings"
    /\ rec.sources = <<>>
    /\ rec.confidence = _confidence("low", <<"Transcript not available", "">>)
    /\ rec.status \in {"success", "error"}

\* C18: in a run with the earnings section selected, the exhaustion of all
\* transcript tiers is no fault: get_transcript answers its tier-0 payload,
\* the transcript_fetch sub-step is reported with status error and the run
\* goes on to the extraction and the draft; the draft is made from the
\* explicit "not available" text, its record has no sources and confidence
\* low, is sent and put into the report, and the run goes on with the next
\* selected section; such a run ends in complete with that record stored,
\* unless the quality check itself brings the engine down.
C18_ExhaustedTranscriptNoFault ==
    [][/\ TiersExhausted =>
             /\ pc' = "earnings_draft"
             /\ events' = events \o <<StepUpdate("transcript_fetch", "running"),
                                       StepUpdate("transcript_fetch", "error"),
                                       StepUpdate("transcript_extract", "running"),
                                       StepUpdate("transcript_extract", "complete")>>
             /\ result'.tier = 0 /\ result'.status = "error"
       /\ DraftsWithoutTranscript =>
             /\ "earnings" \in DOMAIN memo'.sections
             /\ IsUnavailableRecord(memo'.sections["earnings"])
             /\ Last(calls') = Call("generate_section", "earnings", UnavailableText)
             /\ Last(events').event = "section"
             /\ Last(events').data = memo'.sections["earnings"]
             /\ pc' = AfterBlock(3, selected)
             /\ pc' \in LeafCalls
       /\ (/\ pc' = "done"
           /\ StepUpdate("transcript_fetch", "error") \in Range(events')) =>
             /\ "earnings" \in Range(selected')
             /\ IsUnavailableRecord(memo'.sections["earnings"])
             /\ \/ /\ Last(events').event = "complete"
                   /\ memo_store'[Last(events').key].sections["earnings"] =
                         memo'.sections["earnings"]
                \/ /\ Last(events').event = "server_error"
                   /\ ~IsDict(memo'.quality_check)]_vars

C18_Witness ==
    /\ pc = "done" /\ Last(events).event = "complete"
    /\ selected = <<"earnings", "valuation">>
    /\ StepUpdate("transcript_fetch", "error") \in Range(events)
    /\ StepUpdate("market_data", "complete") \in Range(events)
    /\ IsUnavailableRecord(memo_store["m1"].sections["earnings"])
    /\ memo_store["m1"].sections["earnings"].status = "success"


\* the record of a section whose pipeline failed: the acquisition of a
\* structured section failed, or the draft of a narrative section failed
SectionFailed(rec) == "error" \in DOMAIN rec \/ Get(rec, "status", "") = "error"

\* the sections of the chain the run has gone through
SectionsDone ==
    {k \in KnownSelected :
        StepUpdate(StepChildren(k)[Len(StepChildren(k))], "complete") \in Range(events)
        \/ StepUpdate(StepChildren(k)[Len(StepChildren(k))], "error") \in Range(events)}

\* C19 as stated: when the acquisition leaf or the drafting leaf of a
\* selected section fails so that no meaningful record can be made, the
\* report still holds a record for that section, the record carries an
\* explicit error marker, and its confidence level is low.
C19_FailedSectionMarkedLow ==
    /\ SectionsDone \subseteq DOMAIN memo.sections
    /\ \A k \in DOMAIN memo.sections :
          SectionFailed(memo.sections[k]) => memo.sections[k].confidence.level = "low"
    /\ \A id \in DOMAIN memo_store : \A k \in DOMAIN memo_store[id].sections :
          SectionFailed(memo_store[id].sections[k]) =>
              memo_store[id].sections[k].confidence.level = "low"


(***************************************************************************)
(* Claims about the report store under runs and regenerations (Spec).      *)
(***************************************************************************)
Levels == {"high", "medium", "low"}

IsList(x) == DOMAIN x = 1..Len(x)

\* rec carries one confidence rating and a list of provenance sources
Rated(rec) ==
    /\ {"confidence", "sources"} \subseteq DOMAIN rec
    /\ DOMAIN rec.confidence = {"level", "reason"}
    /\ rec.confidence.level \in Levels
    /\ rec.confidence.reason # <<>>
    /\ IsList(rec.sources)
    /\ \A i \in 1..Len(rec.sources) : DOMAIN rec.sources[i] = {"domain", "url", "label"}

\* C7: in every state of the report store, whatever runs and regenerations
\* of either mode came before, every section record of a stored report
\* carries one confidence rating (a level among high, medium, low and a
\* reason) and a list of provenance sources, be the record narrative,
\* structured or an error record.
C7_EveryStoredRecordRated ==
    \A id \in DOMAIN memo_store :
        \A k \in DOMAIN memo_store[id].sections : Rated(memo_store[id].sections[k])

C7_Witness ==
    /\ regen[1].rpc = "done"
    /\ regen[1].rcalls = <<<<"edit_section", "api_error">>>>
    /\ "m1" \in DOMAIN memo_store
    /\ DOMAIN memo_store["m1"].sections = {"bio", "forecast"}
    /\ "error" \in DOMAIN memo_store["m1"].sections["forecast"]
    /\ memo_store["m1"].sections["bio"].status = "error"

\* the slot's regeneration takes the step that ends it
Returns(p) == regen[p].rpc \notin {"idle", "done"} /\ regen'[p].rpc = "done"

LastCall(r) == r.rcalls[Len(r.rcalls)]

\* the section was in the report when the step was taken
SectionStored(p) ==
    /\ regen[p].memo_id \in DOMAIN memo_store
    /\ regen[p].section \in DOMAIN memo_store[regen[p].memo_id].sections

StoredBefore(p) == memo_store[regen[p].memo_id].sections[regen[p].section]

StoredAfter(p) == memo_store'[regen[p].memo_id].sections[regen[p].section]

\* C8 as stated: when the edit call of a draft-only regeneration fails, the
\* stored content of the section (the table rows of the forecast) is after
\* the request what it was before, also when the request supplies its own
\* currentContent.
C8_FailedEditKeepsStoredContent ==
    [][\A p \in Slots :
          (/\ Returns(p) /\ SectionStored(p)
           /\ regen[p].rpc \in {"edit_section", "edit_forecast_table"}
           /\ LastCall(regen'[p])[2] \in {"api_error", "not_a_list"}) =>
              IF regen[p].section = "forecast"
              THEN StoredAfter(p).table_rows = StoredBefore(p).table_rows
              ELSE StoredAfter(p).content = StoredBefore(p).content]_vars

\* the regeneration of slot p ends with regen_complete
Completes(p) == Returns(p) /\ Last(regen'[p].revents).event = "regen_complete"

\* the payload event that precedes regen_complete
Payload(r) == r.revents[Len(r.revents) - 1].data

\* C9: a successful re-search regeneration of section S replaces the stored
\* record of S as a whole by the newly derived one, sources and confidence
\* included (no field of the old record survives, the stored sources and
\* confidence are those the stream announces), and leaves every other
\* section and every other field of the report unchanged.
C9_ReSearchReplacesOnlyItsSection ==
    [][\A p \in Slots :
          (Completes(p) /\ regen[p].re_search) =>
              LET s == regen[p].section
                  old == memo_store[regen[p].memo_id]
                  new == memo_store'[regen[p].memo_id]
              IN  /\ DOMAIN memo_store' = DOMAIN memo_store
                  /\ DOMAIN new = DOMAIN old
                  /\ \A f \in DOMAIN old \ {"sections"} : new[f] = old[f]
                  /\ DOMAIN new.sections = DOMAIN old.sections \cup {s}
                  /\ \A k \in DOMAIN old.sections \ {s} : new.sections[k] = old.sections[k]
                  /\ Rated(new.sections[s])
                  /\ new.sections[s].sources = Payload(regen'[p]).sources
                  /\ new.sections[s].confidence = Payload(regen'[p]).confidence
                  /\ "error" \notin DOMAIN new.sections[s]
                  /\ s \in NarrativeSections =>
                        /\ DOMAIN new.sections[s] =
                              {"section", "content", "status", "sources", "confidence"}
                        /\ new.sections[s].content = Payload(regen'[p]).content
                        /\ (new.sections[s].status = "error") <=>
                              (LastCall(regen'[p])[2] = "api_error")]_vars

C9_Witness ==
    /\ regen[1].rpc = "done"
    /\ Len(regen[1].rcalls) = 1
    /\ regen[1].rcalls[1] = <<"read_forecast_data", "stale_gaps">>
    /\ Last(regen[1].revents).event = "regen_complete"
    /\ "m1" \in DOMAIN memo_store
    /\ DOMAIN memo_store["m1"].sections = {"bio", "forecast"}
    /\ memo_store["m1"].sections["forecast"].confidence =
          RegenForecastConfidence(TRUE, "last year")
    /\ memo_store["m1"].sections["bio"].confidence.level = "low"

Requested(p) == regen[p].rpc = "idle" /\ regen'[p].rpc # "idle"

\* the requests slot p may have taken, which name the section the slot serves
RequestsTaken(p) ==
    {req \in [section : {regen'[p].section}, analyst : {KnownAnalyst},
              instruction : Instructions, re_search : BOOLEAN,
              memo_id : MemoIds \cup {""}, current_content : {"", "client draft"}] :
        regenerate_section(p, req)}

\* req is a draft-only request for the valuation section of a stored report
ValuationEdit(req) ==
    /\ req.section = "valuation" /\ ~req.re_search
    /\ req.memo_id \in DOMAIN memo_store

\* the quotes of a draft-only valuation request arrive
ValuationEditPulled(p) ==
    /\ regen[p].rpc = "get_valuation_data" /\ ~regen[p].re_search
    /\ regen'[p].rpc = "done"

\* a list without the later occurrences of a symbol it holds twice
RECURSIVE FirstOccurrences(_)
FirstOccurrences(list) ==
    IF list = <<>> THEN <<>>
    ELSE LET before == FirstOccurrences(SubSeq(list, 1, Len(list) - 1))
         IN  IF list[Len(list)] \in Range(before) THEN before
             ELSE Append(before, list[Len(list)])

\* C11 as stated: a draft-only regeneration of the valuation section pulls
\* fresh quotes exactly when the set of symbols the instruction yields
\* differs from the stored set; otherwise no leaf is called, the store is
\* unchanged and the stored record is the payload of the stream.
C11_PullIffSymbolSetDiffers ==
    [][\A p \in Slots : Requested(p) => \A req \in RequestsTaken(p) :
          ValuationEdit(req) =>
              LET stored == Get(memo_store[req.memo_id].sections, "valuation", <<>>)
                  existing == ExistingTickers(stored)
                  new == _parse_ticker_changes(req.instruction, existing)
                  r == regen'[p]
              IN  /\ (r.rpc = "get_valuation_data") <=> (Range(new) # Range(existing))
                  /\ r.rpc # "get_valuation_data" =>
                        /\ r.rpc = "done" /\ r.rcalls = <<>>
                        /\ memo_store' = memo_store
                        /\ r.revents[2].event = "regen_valuation"
                        /\ r.revents[2].data = stored]_vars

\* C11 (amended): the request pulls fresh quotes exactly when the list of
\* symbols the instruction yields differs, as an ordered list, from the list
\* it was applied to, which is the symbols of the stored record or, when the
\* stored record holds no quotes, the configured default list.  The pull is
\* for the new list and a successful pull stores a record in the order of
\* that list, with one quote per symbol even where a replacement has put a
\* symbol into the list twice.  Without a difference no leaf is called and
\* the store is unchanged; the stream then carries the stored record as its
\* payload when that record holds quotes and ends in regen_error when it
\* holds none.
C11_PullIffTickerListDiffers ==
    [][\A p \in Slots :
          /\ Requested(p) => \A req \in RequestsTaken(p) :
                ValuationEdit(req) =>
                    LET stored == Get(memo_store[req.memo_id].sections, "valuation", <<>>)
                        existing == ExistingTickers(stored)
                        new == _parse_ticker_changes(req.instruction, existing)
                        r == regen'[p]
                    IN  /\ (r.rpc = "get_valuation_data") <=> (new # existing)
                        /\ r.rcalls = <<>>
                        /\ memo_store' = memo_store
                        /\ r.rpc = "get_valuation_data" =>
                              /\ r.new_tickers = new
                              /\ Last(r.revents).event = "regen_step"
                        /\ r.rpc # "get_valuation_data" =>
                              /\ r.rpc = "done"
                              /\ IF Get(stored, "tickers", <<>>) # <<>>
                                 THEN /\ Len(r.revents) = 3
                                      /\ r.revents[2].event = "regen_valuation"
                                      /\ r.revents[2].data = stored
                                      /\ r.revents[3] = RegenComplete("valuation")
                                 ELSE /\ Len(r.revents) = 2
                                      /\ r.revents[2].event = "regen_error"
          /\ ValuationEditPulled(p) =>
                /\ Len(regen'[p].rcalls) = 1
                /\ regen'[p].rcalls[1][1] = "get_valuation_data"
                /\ Last(regen'[p].revents).event = "regen_complete" =>
                      LET rec == memo_store'[regen[p].memo_id].sections["valuation"]
                      IN  /\ rec.ticker_order = regen[p].new_tickers
                          /\ DictKeys(rec.tickers) = FirstOccurrences(regen[p].new_tickers)
                          /\ Payload(regen'[p]) = rec]_vars

\* the instruction reorders the list without changing its symbols, and the
\* quotes are pulled again
C11_Witness ==
    /\ regen[1].rpc = "done"
    /\ regen[1].rcalls = <<<<"get_valuation_data", "all_quotes">>>>
    /\ Last(regen[1].revents).event = "regen_complete"
    /\ "m1" \in DOMAIN memo_store
    /\ "valuation" \in DOMAIN memo_store["m1"].sections
    /\ Get(memo_store["m1"].sections["valuation"], "ticker_order", <<>>) =
          <<"MS", "JPM", "BAC", "C", "WFC", "SCHW", "GS">>

(***************************************************************************)
(* Claims about the parser of ticker edits (SpecP).                        *)
(***************************************************************************)
NoDirective(words) ==
    /\ ReplaceMatches(words, 1) = <<>> /\ AddMatches(words, 1) = <<>>
    /\ RemoveMatches(words, 1) = <<>>

\* C12: _parse_ticker_changes never removes or replaces the subject symbol:
\* for every instruction and every non-empty list the result, and the working
\* copy after every pass, has at index 0 the symbol the input has there;
\* "Replace GS with BLK and add HOOD" on [MS, GS, JPM] gives
\* [MS, BLK, JPM, HOOD], "Remove MS" on [MS, GS] gives [MS, GS], and an
\* instruction without a recognised directive gives the list unchanged.
C12_SubjectSymbolKept ==
    /\ (parse_pc \in {"add", "remove", "done"} /\ parse_text # <<>> /\ parse_current # <<>>) =>
          parse_tickers # <<>> /\ parse_tickers[1] = parse_current[1]
    /\ parse_pc = "done" =>
          /\ parse_current # <<>> =>
                parse_result # <<>> /\ parse_result[1] = parse_current[1]
          /\ NoDirective(parse_text) => parse_result = parse_current
          /\ (parse_text = ReplaceAndAdd /\ parse_current = <<"MS", "GS", "JPM">>) =>
                parse_result = <<"MS", "BLK", "JPM", "HOOD">>
          /\ (parse_text = RemoveSubject /\ parse_current = <<"MS", "GS">>) =>
                parse_result = <<"MS", "GS">>
          /\ parse_result = _parse_ticker_changes(Directives(parse_text), parse_current)

C12_Witness ==
    /\ parse_pc = "done" /\ parse_changed
    /\ parse_text = ReplaceAndAdd /\ parse_current = <<"MS", "GS", "JPM">>
    /\ parse_result = <<"MS", "BLK", "JPM", "HOOD">>

\* the request names a session the store does not hold, or a key that is no
\* section identifier
UnknownRequest(req) ==
    req.memo_id \notin DOMAIN memo_store \/ req.section \notin Range(SECTION_IDS)

\* C13: a regeneration request that names an unknown session identifier or
\* a section key outside the five known ones, in either mode, is answered by
\* a regen_error event that carries a message saying which of the two it
\* was; the request ends there without a fault, no leaf is called and the
\* report store is unchanged.
C13_UnknownRequestRejected ==
    [][\A p \in Slots : Requested(p) => \A req \in RequestsTaken(p) :
          UnknownRequest(req) =>
              LET r == regen'[p]
              IN  /\ r.rpc = "done"
                  /\ r.rcalls = <<>>
                  /\ memo_store' = memo_store
                  /\ Last(r.revents).event = "regen_error"
                  /\ Last(r.revents).key = req.section
                  /\ Last(r.revents).data =
                        IF req.memo_id \notin DOMAIN memo_store
                        THEN <<"Memo not found">> ELSE <<"Unknown section">>
                  /\ Len(r.revents) = IF req.memo_id \notin DOMAIN memo_store THEN 1 ELSE 2
                  /\ \A i \in 1..(Len(r.revents) - 1) :
                        r.revents[i] = RegenEvent("regen_start", req.section, <<>>)]_vars

C13_Witness ==
    /\ "m1" \in DOMAIN memo_store
    /\ regen[1].rpc = "done" /\ regen[1].rcalls = <<>>
    /\ Len(regen[1].revents) = 2
    /\ regen[1].revents[1].event = "regen_start"
    /\ regen[1].revents[2].event = "regen_error"
    /\ regen[1].revents[2].key = "other"
    /\ regen[1].revents[2].data = <<"Unknown section">>

RegenTerminals(r) ==
    {i \in 1..Len(r.revents) : r.revents[i].event \in {"regen_complete", "regen_error"}}

\* the awaits at which a regeneration can stand: each has a step to take
RegenAwaits ==
    {"edit_section", "edit_forecast_table", "store_forecast", "get_valuation_data",
     "search_analyst_bio", "generate_section", "read_forecast_data",
     "edit_read_forecast", "get_transcript", "search_peer_research"}

\* C14: the event stream of every regeneration request, in either mode, for
\* any section key and any session identifier, ends with exactly one
\* terminal event, regen_complete or regen_error; that event and every
\* event before it carry the section key of the request, regen_complete
\* and regen_error never both occur, no event follows the terminal one, and
\* a request whose stream has not ended is at an await with a step to take.
C14_OneTerminalRegenEvent ==
    [][\A p \in Slots :
          LET r == regen'[p]
          IN  /\ Cardinality(RegenTerminals(r)) <= 1
              /\ \A i \in RegenTerminals(r) : i = Len(r.revents)
              /\ (r.rpc = "done") <=> (RegenTerminals(r) # {})
              /\ r.rpc = "idle" <=> r.revents = <<>>
              /\ r.rpc \notin {"idle", "done"} =>
                    /\ r.rpc \in RegenAwaits
                    /\ r.rpc = "generate_section" => r.section \in NarrativeSections
              /\ \A i \in 1..Len(r.revents) : r.revents[i].key = r.section
              /\ regen[p].rpc # "idle" => r.section = regen[p].section
              /\ Requested(p) => r.section \in RequestKeys]_vars

C14_Witness ==
    /\ regen[1].rpc = "done"
    /\ Len(regen[1].rcalls) = 2
    /\ regen[1].rcalls[1][1] = "read_forecast_data"
    /\ regen[1].rcalls[2] = <<"edit_forecast_table", "api_error">>
    /\ Len(regen[1].revents) = 5
    /\ Last(regen[1].revents) = RegenEvent("regen_complete", "forecast", <<>>)



\* an event that tells the client of a failure: a regen_error, or an event
\* whose status or whose payload's status is "error"
ReportsError(e) ==
    \/ e.event = "regen_error"
    \/ e.status = "error"
    \/ e.event \in {"regen_section", "regen_forecast"} /\ Get(e.data, "status", "") = "error"

\* the draft-only regenerations whose drafting leaf failed
DraftingLeafFailed(r) ==
    r.rcalls \in {<<<<"edit_section", "api_error">>>>,
                  <<<<"edit_forecast_table", "api_error">>>>,
                  <<<<"edit_forecast_table", "not_a_list">>>>}

\* C20 as stated: when the drafting leaf fails during a draft-only
\* regeneration, the event stream of that request reports an error status to
\* the client, and every record of the stored reports is still well-formed.
C20_EditFailureReported ==
    /\ \A p \in Slots :
          regen[p].rpc = "done" /\ DraftingLeafFailed(regen[p]) =>
              \E i \in 1..Len(regen[p].revents) : ReportsError(regen[p].revents[i])
    /\ \A id \in DOMAIN memo_store :
          \A k \in DOMAIN memo_store[id].sections : Rated(memo_store[id].sections[k])


(***************************************************************************)
(* Claims that compare the re-search branch with the initial run (Spec).   *)
(***************************************************************************)
\* slot p ends a re-search regeneration by storing a record
ReSearchStores(p) ==
    /\ regen[p].re_search /\ regen[p].rpc \notin {"idle", "done"}
    /\ regen'[p].rpc = "done"
    /\ Last(regen'[p].revents).event = "regen_complete"

\* the sources and the confidence the blocks of _run_orchestrator_inner give
\* a section whose acquisition leaf returned res and whose record is rec
\* (for the structured sections rec holds the fields of res)
InitialProvenance(section, res, rec) ==
    CASE section = "bio" ->
           LET bio_sources == _top_sources(Get(res, "search_results", <<>>), 5)
           IN  [sources |-> bio_sources,
                confidence |-> BioConfidence(Len(bio_sources), FirmCount(rec.content) < 3)]
      [] section = "forecast" ->
           [sources |-> ForecastSources(KnownAnalyst, KnownFirm, rec.date_updated),
            confidence |-> ForecastConfidence(rec.is_stale, MissingCount(rec.table_rows),
                                              rec.date_updated)]
      [] section = "earnings" ->
           LET text0 == Get(res, "transcript_text", "")
           IN  [sources |-> TranscriptSources(res),
                confidence |->
                    EarningsConfidence(HasTranscript(res), QuestionCount(rec.content) < 2,
                                       Get(res, "tier", 0) = 5,
                                       IsSnippets(IF text0 = "" THEN UnavailableText
                                                  ELSE text0),
                                       Get(res, "source", "N/A"))]
      [] section = "peer" ->
           LET peer_sources == _top_sources(AllPeerHits(res), 5)
               n_peers_with_results == PeersWithResults(res)
           IN  [sources |-> peer_sources,
                confidence |->
                    PeerConfidence(PeerStaleNote(PeerMonthsOld(rec.content), rec.content,
                                                 n_peers_with_results),
                                   n_peers_with_results, Len(peer_sources))]
      [] section = "valuation" ->
           [sources |-> ValuationSources(rec.tickers, "MS", rec.as_of),
            confidence |-> ValuationConfidence(Failures(rec.tickers), Len(rec.tickers))]

\* C21 as stated: the record a re-search regeneration stores for a section
\* has the confidence (level and reason) and the sources that the initial
\* run gives a record made from the same leaf outputs, for each of the five
\* section kinds.
C21_ReSearchRatesLikeInitialRun ==
    [][\A p \in Slots :
          ReSearchStores(p) /\ regen[p].instruction = <<>> =>
              LET rec == memo_store'[regen[p].memo_id].sections[regen[p].section]
                  initial == InitialProvenance(regen[p].section, regen[p].result, rec)
              IN  /\ rec.confidence = initial.confidence
                  /\ rec.sources = initial.sources]_vars


(***************************************************************************)
(* Claims about the ways the report store changes (Spec).                  *)
(***************************************************************************)
\* the step is the last one of the run and puts the finished report, verdict
\* included, under the id that "complete" carries
RunInserts ==
    /\ pc = "quality_check" /\ pc' = "done"
    /\ Last(events').event = "complete"
    /\ "quality_check" \in DOMAIN memo'
    /\ DOMAIN memo'.sections = KnownSelected
    /\ memo_store' = StoreMemo(memo_store, Last(events').key, memo')

\* the step ends the regeneration of slot p and sets, in the report the
\* request names, the record of the one section the request names
RegenSetsSection(p) ==
    /\ Returns(p)
    /\ regen[p].memo_id \in DOMAIN memo_store
    /\ DOMAIN memo_store' = DOMAIN memo_store
    /\ \A id \in DOMAIN memo_store \ {regen[p].memo_id} : memo_store'[id] = memo_store[id]
    /\ LET old == memo_store[regen[p].memo_id]
           new == memo_store'[regen[p].memo_id]
       IN  /\ DOMAIN new = DOMAIN old
           /\ \A f \in DOMAIN old \ {"sections"} : new[f] = old[f]
           /\ DOMAIN new.sections = DOMAIN old.sections \cup {regen[p].section}
           /\ \A k \in DOMAIN old.sections \ {regen[p].section} :
                 new.sections[k] = old.sections[k]

SessionIds == {"m1", "m2"}

SessionSelections == {<<"forecast">>, <<"valuation">>}

\* the stream of the run is closed, its frame is released, the server is
\* ready for the next request
RunReleased ==
    /\ pc = "done"
    /\ pc' = "idle"
    /\ analyst_name' = "" /\ company' = "" /\ selected' = <<>> /\ firm' = ""
    /\ memo' = NoMemo /\ result' = NoResult /\ events' = <<>> /\ calls' = <<>>
    /\ UNCHANGED <<memo_store, tvars, fvars, pvars, regen>>

SessionsNext ==
    \/ \E s \in SessionSelections : generate_memo(KnownAnalyst, DEFAULT_TICKER, s)
    \/ ForecastRead
    \/ MarketData
    \/ QualityCheckWith(SessionIds)
    \/ RunReleased

SpecSessions == RunInit /\ [][SessionsNext]_vars

\* the run emits "complete" in this step
RunCompletes == pc = "quality_check" /\ pc' = "done" /\ Last(events').event = "complete"

\* C23 as stated: the id that "complete" carries is the key under which the
\* finished report of this run is stored, and it is a fresh one: it was no
\* key of the store before, so no session stored earlier is overwritten or
\* altered, however many runs have completed.
C23_CompleteCarriesFreshId ==
    [][RunCompletes =>
          LET memo_id == Last(events').key
          IN  /\ memo_id \in DOMAIN memo_store'
              /\ memo_store'[memo_id] = memo'
              /\ memo_id \notin DOMAIN memo_store
              /\ \A id \in DOMAIN memo_store : memo_store'[id] = memo_store[id]]_vars


(***************************************************************************)
(* SpecPair: one run for one section, then two regeneration requests for   *)
(* that session and that section, the second of which may come while the   *)
(* first is suspended at a leaf call.                                      *)
(***************************************************************************)
Pair == {1, 2}

PairSelections == {<<"bio">>, <<"forecast">>}

PairRequests ==
    [section : {"bio", "forecast"}, analyst : {KnownAnalyst},
     instruction : {<<>>, <<Text>>}, re_search : BOOLEAN, memo_id : MemoIds,
     current_content : {"", "client draft"}]

PairInit == TIdle /\ RIdle /\ PIdle /\ FIdle /\ regen = [p \in Pair |-> NoRegen]

PairNext ==
    \/ \E s \in PairSelections : generate_memo(KnownAnalyst, DEFAULT_TICKER, s)
    \/ BioSearch \/ BioDraft \/ ForecastRead \/ QualityCheck
    \/ RunClosed
    \/ pc = "closed" /\ \E p \in Pair, req \in PairRequests :
          /\ req.memo_id \in DOMAIN memo_store
          /\ req.section \in DOMAIN memo_store[req.memo_id].sections
          /\ p = 2 => req.section = regen[1].section
          /\ regenerate_section(p, req)
    \/ \E p \in Pair :
          \/ EditSection(p) \/ EditForecastTable(p) \/ StoreForecast(p)
          \/ ReBioSearch(p) \/ ReBioDraft(p)
          \/ ReForecastRead(p) \/ ReForecastEdit(p)

SpecPair == PairInit /\ [][PairNext]_vars


\* the regeneration of frame r has ended with regen_complete
Completed(r) == r.rpc = "done" /\ Last(r.revents).event = "regen_complete"

\* the record a completed regeneration wrote, as its stream tells it: the
\* payload of regen_forecast is the record; a narrative record is the drafted
\* or edited section with the announced content, sources and confidence
WrittenBy(r) ==
    IF r.section \in NarrativeSections
    THEN [section |-> r.section, content |-> Payload(r).content,
          status |-> IF LastCall(r)[2] = "api_error" THEN "error" ELSE "success",
          sources |-> Payload(r).sources, confidence |-> Payload(r).confidence]
    ELSE Payload(r)

\* the stored record of the section both requests name
PairRecord == memo_store["m1"].sections[regen[1].section]

\* C24: two regeneration requests for one session and one section, in any
\* interleaving: the store changes only in the step in which a request
\* completes, and the stored record of the section is then the whole record
\* that request wrote, so the request that writes last wins; once both have
\* ended the section holds the whole record of one of them, rated and with
\* sources, never a mix of the two and never nothing.
C24_LastWriteWins ==
    [][/\ \A p \in Pair :
             Completes(p) =>
                 /\ StoredAfter(p) = WrittenBy(regen'[p])
                 /\ Rated(StoredAfter(p))
       /\ (pc = "closed" /\ memo_store' # memo_store) => \E p \in Pair : Completes(p)
       /\ ((\A p \in Pair : regen'[p].rpc = "done") /\ (\E p \in Pair : Completed(regen'[p]))) =>
              /\ regen'[1].section \in DOMAIN memo_store'["m1"].sections
              /\ Rated(PairRecord')
              /\ \E p \in Pair : Completed(regen'[p]) /\ PairRecord' = WrittenBy(regen'[p])]_vars

\* the first request, a draft-only edit, was suspended while the second, a
\* re-search, wrote its record; the edit wrote last
C24_Witness ==
    /\ Completed(regen[1]) /\ Completed(regen[2])
    /\ regen[1].rcalls = <<<<"edit_section", "edited">>>>
    /\ regen[2].rcalls = <<<<"search_analyst_bio", "three_domains">>,
                           <<"generate_section", "rich">>>>
    /\ PairRecord = WrittenBy(regen[1])
    /\ PairRecord # WrittenBy(regen[2])
    /\ PairRecord.sources # Payload(regen[2]).sources


(***************************************************************************)
(* SpecFan: the two leaves that fan out, each for every input of a small   *)
(* set.  search_analyst_bio awaits its queries one after the other;        *)
(* get_valuation_data gathers one fetch per symbol and builds its result   *)
(* when all have settled.                                                  *)
(***************************************************************************)
\* what one web search answers: "raise" is an exception inside _search
SubAnswers == {"raise", "nothing", "profile", "interview"}

\* _search: the hits, [] when there are none or when the search raises
_search(a) ==
    CASE a = "profile" -> <<Hit("Profile", "https://www.a.com/1"), Hit("No link", "")>>
      [] a = "interview" ->
           <<Hit("Profile", "https://www.a.com/1"), Hit("Interview", "https://a.com/2")>>
      [] OTHER -> <<>>

\* the queries of search_analyst_bio
NQueries == 4

\* the inner loop: a hit with a URL not seen so far is appended
RECURSIVE Collect(_, _)
Collect(hits, seen) ==
    IF hits = <<>> THEN seen
    ELSE Collect(Tail(hits),
                 IF Head(hits).href # "" /\ \A j \in 1..Len(seen) : seen[j].href # Head(hits).href
                 THEN Append(seen, Head(hits)) ELSE seen)

FanInit ==
    /\ search_pc = "query" /\ query_answers \in [1..NQueries -> SubAnswers]
    /\ query_i = 1 /\ all_results = <<>> /\ search_return = NoResult
    /\ quotes_pc = "gather" /\ quote_symbols \in SeqsUpTo(ParseSymbols, MaxTickers)
    /\ quote_failed \in SUBSET ParseSymbols
    /\ quotes_return = NoResult
    /\ TIdle /\ RIdle /\ GIdle /\ PIdle

\* one pass of "for query in queries"
SearchQuery ==
    /\ search_pc = "query"
    /\ all_results' = Collect(_search(query_answers[query_i]), all_results)
    /\ query_i' = query_i + 1
    /\ search_pc' = IF query_i = NQueries THEN "return" ELSE "query"
    /\ UNCHANGED <<query_answers, search_return, quotes_pc, quote_symbols, quote_failed,
                   quotes_return, memo_store, rvars, tvars, pvars, regen>>

SearchReturn ==
    /\ search_pc = "return"
    /\ search_return' = [status |-> "success", analyst_name |-> KnownAnalyst,
                         firm |-> KnownFirm, search_results |-> all_results]
    /\ search_pc' = "done"
    /\ UNCHANGED <<query_answers, query_i, all_results, quotes_pc, quote_symbols,
                   quote_failed, quotes_return, memo_store, rvars, tvars, pvars, regen>>

\* every fetch has settled and the result is built
QuotesGathered ==
    /\ quotes_pc = "gather"
    /\ quotes_return' = get_valuation_data(quote_symbols, quote_failed)
    /\ quotes_pc' = "done"
    /\ UNCHANGED <<search_pc, query_answers, query_i, all_results, search_return,
                   quote_symbols, quote_failed, memo_store, rvars, tvars, pvars, regen>>

FanNext == SearchQuery \/ SearchReturn \/ QuotesGathered

SpecFan == FanInit /\ [][FanNext]_vars

\* the hits of the queries that did not fail
HitsOfQueries ==
    UNION {Range(_search(query_answers[q])) : q \in {n \in 1..NQueries : query_answers[n] # "raise"}}

\* C25: the leaves that fan out tolerate the failure of a sub-query.
\* get_valuation_data returns status success with one entry for every
\* symbol asked for; the metrics of a symbol whose fetch failed are all null
\* and the entries of the other symbols are what they are without any
\* failure.  search_analyst_bio runs every query, a failed query adds
\* nothing, and the result holds the hits of the other queries, each URL
\* once.
C25_FanOutToleratesPartialFailure ==
    /\ quotes_pc = "done" =>
          /\ quotes_return.status = "success"
          /\ Range(DictKeys(quotes_return.tickers)) = Range(quote_symbols)
          /\ Len(quotes_return.tickers) = Cardinality(Range(quote_symbols))
          /\ \A t \in Range(quote_symbols) :
                LET row == DictGet(quotes_return.tickers, t)
                IN  IF t \in quote_failed
                    THEN \A m \in DOMAIN row : row[m] = None
                    ELSE /\ row = DictGet(get_valuation_data(quote_symbols, {}).tickers, t)
                         /\ \A m \in DOMAIN row : row[m] # None
    /\ search_pc = "done" =>
          /\ search_return.status = "success"
          /\ query_i = NQueries + 1
          /\ {search_return.search_results[j].href :
                 j \in 1..Len(search_return.search_results)} =
                {h.href : h \in HitsOfQueries} \ {""}
          /\ Range(search_return.search_results) \subseteq HitsOfQueries
          /\ \A j, k \in 1..Len(search_return.search_results) :
                search_return.search_results[j].href =
                    search_return.search_results[k].href => j = k

\* a fetch failed and a query failed, the later query gave its hits
C25_Witness ==
    /\ quotes_pc = "done" /\ search_pc = "done"
    /\ quote_symbols = <<"MS", "GS">> /\ quote_failed = {"GS"}
    /\ DictGet(quotes_return.tickers, "MS").price # None
    /\ DictGet(quotes_return.tickers, "GS").price = None
    /\ query_answers[1] = "raise" /\ query_answers[2] = "raise"
    /\ query_answers[3] = "interview" /\ query_answers[4] = "profile"
    /\ Len(search_return.search_results) = 2


(***************************************************************************)
(* Claims about the confidence rating as a function of its inputs (Spec).  *)
(***************************************************************************)
\* the documented inputs of the rating of a stored record: the number of
\* its sources, its staleness, the number of its missing values
RatingInputs(rec) ==
    [source_count |-> Len(rec.sources),
     staleness |-> Get(rec, "is_stale", FALSE),
     missing_count |-> IF "table_rows" \in DOMAIN rec THEN MissingCount(rec.table_rows)
                       ELSE IF "tickers" \in DOMAIN rec THEN Failures(rec.tickers)
                       ELSE 0]

\* C26 as stated: the confidence of a section is a function of the source
\* count, the staleness and the missing-field count alone: two computations
\* for a section kind with the same inputs give the same level and the same
\* reason, whenever and wherever they happen.  Here the two computations
\* are the one behind the stored record and the one of the regeneration
\* that replaces it.
C26_RatingIsFunctionOfInputs ==
    [][\A p \in Slots :
          (/\ Completes(p) /\ SectionStored(p)
           /\ "confidence" \in DOMAIN StoredBefore(p)
           /\ RatingInputs(StoredAfter(p)) = RatingInputs(StoredBefore(p))) =>
              StoredAfter(p).confidence = StoredBefore(p).confidence]_vars


(***************************************************************************)
(* Claims about the status of the sub-steps of a run (SpecRun).            *)
(***************************************************************************)
DraftSteps == [bio |-> "bio_draft", earnings |-> "earnings_draft", peer |-> "peer_draft"]

\* the terminal status reported for a sub-step, "" while none is reported
TerminalStatus(step) ==
    IF StepUpdate(step, "error") \in Range(events) THEN "error"
    ELSE IF StepUpdate(step, "complete") \in Range(events) THEN "complete"
    ELSE ""

\* what the quality-check leaf returned to the run
QcLeafFailed == Get(Get(memo, "quality_check", <<>>), "overall_status", "") = "error"

\* C27 as stated: the terminal status of a sub-step is "error" exactly when
\* the leaf behind it failed and "complete" otherwise, for the drafting
\* sub-steps and the quality check as for the acquisition sub-steps.
C27_StepStatusFollowsLeaf ==
    /\ \A k \in DOMAIN DraftSteps :
          TerminalStatus(DraftSteps[k]) # "" =>
              /\ k \in DOMAIN memo.sections
              /\ (TerminalStatus(DraftSteps[k]) = "error")
                     <=> (Get(memo.sections[k], "status", "") = "error")
    /\ TerminalStatus("quality_check") # "" =>
          ((TerminalStatus("quality_check") = "error") <=> QcLeafFailed)
    /\ \A k \in {"forecast", "valuation"} \cap DOMAIN memo.sections :
          (TerminalStatus(StepChildren(k)[1]) = "error")
              <=> ("error" \in DOMAIN memo.sections[k])


(***************************************************************************)
(* Claims about regenerations that end in an error (Spec).                 *)
(***************************************************************************)
EndsInError(r) == r.rpc = "done" /\ Last(r.revents).event = "regen_error"

\* C28: a regeneration whose stream ends with regen_error leaves the store
\* as it found it, in the draft-only and in the re-search mode: the only
\* step of a regeneration that changes the store is its last one, and that
\* step ends the stream with regen_complete, never with regen_error.
C28_ErrorLeavesStoreUnchanged ==
    [][\A p \in Slots :
          /\ (regen'[p] # regen[p] /\ memo_store' # memo_store) => Completes(p)
          /\ (Returns(p) /\ EndsInError(regen'[p])) => memo_store' = memo_store
          /\ (Requested(p) /\ EndsInError(regen'[p])) => memo_store' = memo_store]_vars

\* a regeneration of a stored report has called a leaf and ended in an error
C28_Witness ==
    /\ EndsInError(regen[1])
    /\ Len(regen[1].rcalls) > 0
    /\ "m1" \in DOMAIN memo_store
    /\ regen[1].section \in DOMAIN memo_store["m1"].sections


(***************************************************************************)
(* Claims about the section keys of a stored report (Spec).                *)
(***************************************************************************)
SectionKeys(store, id) == DOMAIN store[id].sections

\* C29 as stated: a regeneration never adds a section to a report: the keys
\* of the section map of every stored report stay what they were when its
\* run completed.
C29_RegenerationAddsNoSection ==
    [][\A p \in Slots : regen'[p] # regen[p] =>
          \A id \in DOMAIN memo_store :
              SectionKeys(memo_store', id) = SectionKeys(memo_store, id)]_vars


(***************************************************************************)
(* SpecSubject: one run for a known analyst and one of the companies, then *)
(* re-search regenerations of its report whose requests carry the analyst  *)
(* of the report or another name.                                          *)
(***************************************************************************)
\* a name the spreadsheet has no row for
OtherAnalyst == "Jane Doe"

SubjectSelections == {<<"bio">>, <<"forecast">>, <<"earnings">>}

SubjectRequests ==
    [section : {"bio", "forecast", "earnings"}, analyst : {KnownAnalyst, OtherAnalyst},
     instruction : {<<>>}, re_search : {TRUE}, memo_id : MemoIds,
     current_content : {""}]

SubjectNext ==
    \/ \E comp \in Companies, s \in SubjectSelections : generate_memo(KnownAnalyst, comp, s)
    \/ BioSearch \/ BioDraft \/ ForecastRead \/ TranscriptFetch \/ EarningsDraft
    \/ QualityCheck
    \/ RunClosed
    \/ pc = "closed" /\ \E p \in Slots, req \in SubjectRequests :
          req.memo_id \in DOMAIN memo_store /\ regenerate_section(p, req)
    \/ \E p \in Slots :
          \/ ReBioSearch(p) \/ ReBioDraft(p)
          \/ ReForecastRead(p)
          \/ ReTranscript(p) \/ ReEarningsDraft(p)

SpecSubject == Init /\ [][SubjectNext]_vars

\* C30 as stated: a re-search regeneration acquires for the subject the
\* stored report names, whatever analyst name the request carries and
\* whatever company the run was for: the bio search is made for the stored
\* analyst and firm, the transcript is resolved for the stored company (the
\* 8-K tier answers only for a company with a known CIK), and the forecast
\* row of the stored analyst is read, so a read that finds current data for
\* that analyst ends in regen_complete.
C30_ReSearchUsesStoredSubject ==
    \A p \in Slots :
        LET r == regen[p]
        IN  /\ (r.rpc = "generate_section" /\ r.section = "bio"
                   /\ Get(r.result, "status", "") = "success") =>
                  /\ r.result.analyst_name = memo_store[r.memo_id].analyst
                  /\ r.result.firm = memo_store[r.memo_id].firm
            /\ (r.rpc = "generate_section" /\ r.section = "earnings"
                   /\ Get(r.result, "tier", 0) = 2) =>
                  Tier2Guard(memo_store[r.memo_id].company)
            /\ (/\ r.rpc = "done" /\ r.section = "forecast" /\ Len(r.rcalls) > 0
                 /\ r.rcalls[1] = <<"read_forecast_data", "current">>
                 /\ memo_store["m1"].analyst = KnownAnalyst) => Completed(r)


(***************************************************************************)
(* Claims about the sources of the earnings record (Spec).                 *)
(***************************************************************************)
\* the re-search regeneration of slot p stores an earnings record drafted
\* after get_transcript had exhausted its tiers
ReDraftsWithoutTranscript(p) ==
    /\ Completes(p) /\ regen[p].section = "earnings" /\ regen[p].re_search
    /\ regen[p].rcalls[1] = <<"get_transcript", "error">>

\* C31 as stated: an earnings record lists no source when no transcript was
\* obtained: the record drafted by the run and the record stored by a
\* re-search regeneration after all tiers were exhausted have an empty
\* sources list.
C31_NoSourceWithoutTranscript ==
    [][/\ DraftsWithoutTranscript => memo'.sections["earnings"].sources = <<>>
       /\ \A p \in Slots :
             ReDraftsWithoutTranscript(p) => StoredAfter(p).sources = <<>>]_vars


(***************************************************************************)
(* Claims about the order of the events of a regeneration stream (Spec).   *)
(***************************************************************************)
PayloadEvents == {"regen_section", "regen_forecast", "regen_valuation"}

\* the payload event of each section
PayloadEventOf(section) ==
    CASE section \in NarrativeSections -> "regen_section"
      [] section = "forecast" -> "regen_forecast"
      [] section = "valuation" -> "regen_valuation"
      [] OTHER -> "none"

EventsNamed(r, names) == {i \in 1..Len(r.revents) : r.revents[i].event \in names}

\* C32: in the stream of a regeneration, regen_complete comes after
\* regen_start and after exactly one payload event, the one of the section
\* requested; every regen_step comes after regen_start and before the
\* payload event; a stream that ends with regen_error holds no payload
\* event.
C32_RegenStreamOrder ==
    \A p \in Slots :
        LET r == regen[p]
            payloads == EventsNamed(r, PayloadEvents)
        IN  /\ Cardinality(payloads) <= 1
            /\ \A i \in payloads : r.revents[i].event = PayloadEventOf(r.section)
            /\ Completed(r) =>
                  /\ r.revents[1].event = "regen_start"
                  /\ Cardinality(payloads) = 1
            /\ EventsNamed(r, {"regen_start"}) \subseteq {1}
            /\ \A i \in EventsNamed(r, {"regen_step"}) :
                  /\ r.revents[1].event = "regen_start"
                  /\ \A j \in payloads : i < j
            /\ EndsInError(r) => payloads = {}

\* a re-search regeneration has reported two steps, sent its payload and
\* completed
C32_Witness ==
    /\ Completed(regen[1])
    /\ Cardinality(EventsNamed(regen[1], {"regen_step"})) = 2
    /\ Cardinality(EventsNamed(regen[1], PayloadEvents)) = 1


(***************************************************************************)
(* Claims about the declared sub-steps of a run (SpecRun).                 *)
(***************************************************************************)
\* the terminal step_updates of a sub-step
TerminalUpdates(step) ==
    {i \in StepUpdates : events[i].key = step /\ events[i].status \in {"complete", "error"}}

RunCompleted == pc = "done" /\ Last(events).event = "complete"

\* C33: in a run that reaches complete the steps event is the first event
\* and the only one of its kind, every step_update names a sub-step the
\* steps event declares, and every declared sub-step has exactly one
\* terminal step_update, complete or error, whether its section succeeded
\* or failed; while the run goes on no sub-step has two.
C33_DeclaredStepsAllTerminate ==
    /\ \A i \in StepUpdates : events[i].key \in Announced
    /\ \A step \in Announced : Cardinality(TerminalUpdates(step)) <= 1
    /\ RunCompleted =>
          /\ EventsOf(events, "steps") = {1}
          /\ \A step \in Announced : Cardinality(TerminalUpdates(step)) = 1

\* a completed run whose forecast could not be read and whose earnings
\* section was drafted
C33_Witness ==
    /\ RunCompleted
    /\ TerminalStatus("forecast_deltas") = "error"
    /\ TerminalStatus("earnings_draft") = "complete"


(***************************************************************************)
(* Claims about the leaves a draft-only regeneration calls (Spec).         *)
(***************************************************************************)
\* the edit leaf of a section
EditLeafOf(section) ==
    IF section \in NarrativeSections THEN "edit_section" ELSE "edit_forecast_table"

\* the regeneration of slot p is a draft-only one of a narrative section
\* or of the forecast, and takes a step
DraftOnlyStep(p) ==
    /\ regen[p].rpc \notin {"idle", "done"} /\ ~regen[p].re_search
    /\ regen[p].section \in NarrativeSections \cup {"forecast"}
    /\ regen'[p] # regen[p]

\* C34: a draft-only regeneration of a narrative section or of the forecast
\* calls no acquisition leaf (web search, transcript retrieval, spreadsheet
\* read, quote pull): the only leaf it calls is the edit leaf of its
\* section, at most once, and nothing is added to the leaf calls of the run.
C34_DraftOnlyCallsEditLeafOnly ==
    [][\A p \in Slots : DraftOnlyStep(p) =>
          /\ Len(regen'[p].rcalls) <= 1
          /\ \A i \in 1..Len(regen'[p].rcalls) :
                regen'[p].rcalls[i][1] = EditLeafOf(regen[p].section)
          /\ calls' = calls]_vars

\* a draft-only regeneration of the forecast has edited the table and ended
C34_Witness ==
    /\ Completed(regen[1]) /\ regen[1].section = "forecast"
    /\ regen[1].rcalls = <<<<"edit_forecast_table", "modified">>>>


(***************************************************************************)
(* SpecApart: one run for the bio and the valuation section, then two      *)
(* regeneration requests for different sections of its report; the second  *)
(* may come while the first is suspended at a leaf call.                   *)
(***************************************************************************)
ApartSelections == {<<"bio", "valuation">>}

ApartRequests ==
    [section : {"bio", "valuation"}, analyst : {KnownAnalyst},
     instruction : {<<>>, <<Add("BLK"), Remove("GS")>>}, re_search : BOOLEAN,
     memo_id : MemoIds, current_content : {"", "client draft"}]

ApartNext ==
    \/ \E s \in ApartSelections : generate_memo(KnownAnalyst, DEFAULT_TICKER, s)
    \/ BioSearch \/ BioDraft \/ MarketData \/ QualityCheck
    \/ RunClosed
    \/ pc = "closed" /\ \E p \in Pair, req \in ApartRequests :
          /\ req.memo_id \in DOMAIN memo_store
          /\ p = 2 => req.section # regen[1].section
          /\ regenerate_section(p, req)
    \/ \E p \in Pair :
          \/ EditSection(p) \/ DraftValuationPull(p)
          \/ ReBioSearch(p) \/ ReBioDraft(p)
          \/ ReSearchValuation(p)

SpecApart == PairInit /\ [][ApartNext]_vars

\* the stored record of the section the request of slot p names
ApartRecord(p) == memo_store["m1"].sections[regen[p].section]

\* C35: two regeneration requests for different sections of one session,
\* in any interleaving: each request starts from the record of its own
\* section, which the other request never touches, so it takes the steps
\* it would take alone; the step in which a request completes stores the
\* record its stream announces and leaves every other section as it was;
\* once both have ended, the section of each completed request holds the
\* record that request announced: neither write is lost.
C35_DifferentSectionsDoNotInterfere ==
    [][/\ \A p \in Pair :
             /\ Requested(p) /\ regen'[p].rpc # "done" =>
                   regen'[p].existing_section =
                       Get(memo_store["m1"].sections, regen'[p].section, <<>>)
             /\ Completes(p) =>
                   /\ StoredAfter(p) = WrittenBy(regen'[p])
                   /\ \A k \in DOMAIN memo_store["m1"].sections \ {regen[p].section} :
                         /\ k \in DOMAIN memo_store'["m1"].sections
                         /\ memo_store'["m1"].sections[k] = memo_store["m1"].sections[k]
             /\ (regen'[p] # regen[p] /\ ~Completes(p)) => memo_store' = memo_store
       /\ (\A p \in Pair : regen'[p].rpc = "done") =>
              \A p \in Pair : Completed(regen'[p]) =>
                  /\ regen'[p].section \in DOMAIN memo_store'["m1"].sections
                  /\ ApartRecord(p)' = WrittenBy(regen'[p])]_vars

\* the re-search of the bio was suspended while the valuation request
\* pulled quotes for an edited ticker list and wrote; then the bio was
\* written: both records are in the report
C35_Witness ==
    /\ Completed(regen[1]) /\ Completed(regen[2])
    /\ regen[1].section = "bio" /\ regen[2].section = "valuation"
    /\ regen[1].rcalls = <<<<"search_analyst_bio", "three_domains">>,
                           <<"generate_section", "rich">>>>
    /\ regen[2].rcalls = <<<<"get_valuation_data", "all_quotes">>>>
    /\ ApartRecord(1) = WrittenBy(regen[1])
    /\ ApartRecord(2) = WrittenBy(regen[2])
    /\ ApartRecord(2).ticker_order # ALL_TICKERS


(***************************************************************************)
(* Claims about the lists the parser of ticker edits returns (SpecP).      *)
(***************************************************************************)
NoRepeats(list) == \A i, j \in 1..Len(list) : list[i] = list[j] => i = j

\* C36 as stated: _parse_ticker_changes keeps the list free of duplicates:
\* for a current list without a repeated symbol and any instruction, the
\* list returned holds no symbol twice.
C36_ParsedListHasNoDuplicates ==
    (parse_pc = "done" /\ NoRepeats(parse_current)) => NoRepeats(parse_result)

(***************************************************************************)
(* Claims about the order in which ticker directives apply (SpecP).        *)
(***************************************************************************)
\* the call returns in this step
ParseReturns == parse_pc = "remove" /\ parse_pc' = "done"

\* C37: the directives of an instruction apply grouped by verb, not in the
\* order of the text: the first pass only replaces symbols in place, the
\* second only appends, the third only removes, each taking its matches in
\* their order of appearance (of two replacements the second sees what the
\* first wrote); so for a list without repeats (both callers pass the keys
\* of a dict) and a symbol X that is not its subject, "remove X add X" and
\* "add X remove X" both return a list without X, whether X was a peer or not.
C37_DirectivesGroupedByVerb ==
    [][/\ parse_pc = "start" => parse_pc' \in {"replace", "done"}
       /\ parse_pc = "replace" =>
             /\ parse_pc' = "add"
             /\ Len(parse_tickers') = Len(parse_tickers)
       /\ parse_pc = "add" =>
             /\ parse_pc' = "remove"
             /\ Len(parse_tickers') >= Len(parse_tickers)
             /\ SubSeq(parse_tickers', 1, Len(parse_tickers)) = parse_tickers
       /\ ParseReturns =>
             /\ Len(parse_tickers') <= Len(parse_tickers)
             /\ Range(parse_tickers') \subseteq Range(parse_tickers)
             /\ \A X \in ParseSymbols :
                   (/\ parse_text \in {<<"REMOVE", X, "ADD", X>>, <<"ADD", X, "REMOVE", X>>}
                    /\ NoRepeats(parse_current)
                    /\ parse_current # <<>> /\ parse_current[1] # X) =>
                       X \notin Range(parse_result')
             /\ (parse_text = ReplaceTwice /\ parse_current = <<"MS", "GS">>) =>
                   parse_result' = <<"MS", "GS">> /\ parse_changed']_vars

\* "remove GS add GS" on [MS, GS] has returned [MS]
C37_Witness ==
    /\ parse_pc = "done"
    /\ parse_text = <<"REMOVE", "GS", "ADD", "GS">>
    /\ parse_current = <<"MS", "GS">>
    /\ parse_result = <<"MS">>

(***************************************************************************)
(* SpecRated: runs of the forecast and earnings blocks for every sheet of  *)
(* MaxRows rows, stale or not, and for a transcript of every tier.         *)
(***************************************************************************)
\* agents/forecast.py: the labels of FORECAST_ROWS that have indent 0
FORECAST_ROWS ==
    <<"ISG Revenues", "WM Revenues", "IM Revenues", "Firmwide Revenues", "EPS", "ROE", "ROTCE">>

NRows == IF MaxRows <= Len(FORECAST_ROWS) THEN MaxRows ELSE Len(FORECAST_ROWS)

\* the analyst and the consensus cell of a row, NaN read as None
SheetCells == {<<a, c>> : a \in {"17000", None}, c \in {"16800", None}}

_calc_delta(analyst_val, consensus_val) ==
    IF analyst_val = None \/ consensus_val = None THEN None ELSE "+1.2%"

\* table_rows of a sheet row: one entry per FORECAST_ROWS label
TableRows(cells) ==
    [i \in 1..NRows |->
        LET delta == _calc_delta(cells[i][1], cells[i][2])
        IN  Row(FORECAST_ROWS[i], cells[i][1], cells[i][2],
                IF Truthy(delta) THEN delta ELSE "[Value unavailable]")]

\* what read_forecast_data returns for a sheet row of the analyst
SheetRead(analyst, is_stale, cells) ==
    [status |-> "success", analyst_name |-> analyst, firm |-> KnownFirm,
     date_updated |-> IF is_stale THEN "last year" ELSE "this month",
     is_stale |-> is_stale, table_rows |-> TableRows(cells),
     rating |-> "Overweight", price_target |-> "150"]

SheetOutcomes(analyst) ==
    ForecastOutcomes(analyst) \cup
    (IF analyst # KnownAnalyst THEN {}
     ELSE {<<FALSE, SheetRead(analyst, s, cells)>> :
              s \in BOOLEAN, cells \in [1..NRows -> SheetCells]})

\* an article whose text bears the marker of a partial transcript
PartialArticle ==
    TranscriptFound("[Partial transcript] snippets", "Web search", "article_url", 4)

\* every tier in turn is the first to answer, or none is
RatedTierAnswers ==
    {AllTiersFail, [AllTiersFail EXCEPT !.t1 = "hit_qa"], [AllTiersFail EXCEPT !.t2 = "qa_filing"],
     [AllTiersFail EXCEPT !.t3 = "content"], [AllTiersFail EXCEPT !.t4 = "article"],
     [AllTiersFail EXCEPT !.t5 = "file"]}

FoundTranscripts(comp) ==
    {get_transcript(comp, a) : a \in RatedTierAnswers} \cup {PartialArticle}

RatedSelections == {<<"forecast">>, <<"earnings">>, <<"forecast", "earnings">>}

RatedNext ==
    \/ \E a \in Analysts, c \in Companies, s \in RatedSelections : generate_memo(a, c, s)
    \/ ForecastReadOf(SheetOutcomes(analyst_name))
    \/ TranscriptFetchOf(FoundTranscripts(company))
    \/ EarningsDraft
    \/ QualityCheck

SpecRated == RunInit /\ [][RatedNext]_vars

(***************************************************************************)
(* Claims about the confidence of the structured sections (SpecRated).     *)
(***************************************************************************)
\* the forecast record of the run, when the sheet was read
SheetRecord ==
    IF "forecast" \in DOMAIN memo.sections /\ "table_rows" \in DOMAIN memo.sections["forecast"]
    THEN memo.sections["forecast"] ELSE [level |-> "none"]

\* rows with a missing analyst or consensus value
RowsMissing(rec) ==
    Cardinality({i \in 1..Len(rec.table_rows) :
                    rec.table_rows[i].analyst = None \/ rec.table_rows[i].consensus = None})

LevelRank(level) == CASE level = "low" -> 0 [] level = "medium" -> 1 [] level = "high" -> 2

\* C38: the confidence of a forecast read from the sheet in the initial run
\* follows from the staleness flag and the number of rows with a missing
\* analyst or consensus value alone: high iff not stale and at most 2 rows
\* missing; medium iff stale with none missing, or not stale with more than
\* 2 missing; low iff stale with at least 1 missing.  Staleness and a larger
\* count never raise the level.
C38_ForecastConfidenceRule ==
    /\ "table_rows" \in DOMAIN SheetRecord =>
          LET rec == SheetRecord
              lvl == IF "confidence" \in DOMAIN rec THEN rec.confidence.level ELSE "none"
              stale == rec.is_stale
              m == RowsMissing(rec)
          IN  /\ lvl \in {"high", "medium", "low"}
              /\ lvl = "high" <=> (~stale /\ m <= 2)
              /\ lvl = "medium" <=> ((stale /\ m = 0) \/ (~stale /\ m > 2))
              /\ lvl = "low" <=> (stale /\ m >= 1)
    /\ \A s1 \in BOOLEAN, s2 \in BOOLEAN, m1 \in 0..NRows, m2 \in 0..NRows :
          ((s1 => s2) /\ m1 <= m2) =>
              LevelRank(ForecastConfidence(s2, m2, "").level)
                 <= LevelRank(ForecastConfidence(s1, m1, "").level)

\* a stale sheet without gaps was rated medium, and the run completed
C38_Witness ==
    /\ pc = "done"
    /\ "table_rows" \in DOMAIN SheetRecord
    /\ SheetRecord.is_stale /\ RowsMissing(SheetRecord) = 0
    /\ SheetRecord.confidence.level = "medium"
    /\ events # <<>> /\ Last(events).event = "complete"

\* the earnings block drafts in this step
EarningsDrafted == pc = "earnings_draft" /\ pc' # "earnings_draft"

\* C39: the earnings confidence of the initial run follows the tier of the
\* transcript the resolver returned: the level is low exactly when no tier
\* answered (tier 0); it is high only for a transcript of tiers 1..4 that
\* bears no partial-transcript marker and whose draft quotes at least two
\* questions; a transcript of tier 5 is never rated above medium.
C39_TierDrivesEarningsConfidence ==
    [][EarningsDrafted =>
          /\ "earnings" \in DOMAIN memo'.sections
          /\ LET rec == memo'.sections["earnings"]
                 lvl == rec.confidence.level
                 tier == Get(result, "tier", 0)
             IN  /\ lvl \in {"high", "medium", "low"}
                 /\ lvl = "low" <=> tier = 0
                 /\ lvl = "high" =>
                       /\ tier \in 1..4
                       /\ ~IsSnippets(Get(result, "transcript_text", ""))
                       /\ QuestionCount(rec.content) >= 2
                 /\ tier = 5 => lvl # "high"]_vars

\* a partial transcript of tier 4 with a draft of two questions was rated medium
C39_Witness ==
    /\ pc = "done"
    /\ "earnings" \in DOMAIN memo.sections
    /\ QuestionCount(memo.sections["earnings"].content) >= 2
    /\ memo.sections["earnings"].sources # <<>>
    /\ memo.sections["earnings"].sources[1].domain = "Web search"
    /\ memo.sections["earnings"].confidence.level = "medium"

====
